---- MODULE Spec2Model ----
(***************************************************************************)
(* echopan: feed ingestion and the download / publish / cleanup pipeline.  *)
(*                                                                         *)
(* The store (feeds, items, enclosures) is the relational database, the    *)
(* set files is the local temporary directory, and run is the position of  *)
(* the one publish command in progress (publish, publishOneItem or         *)
(* publishOnebyFeedId).  Processing is sequential: one command runs at a   *)
(* time, and a publish command advances one store or network call at a     *)
(* time.  Record identities are the positions in the sequences: the store  *)
(* assigns increasing identities and this core deletes no Feed, Item or    *)
(* Enclosure.                                                              *)
(***************************************************************************)
EXTENDS Integers, Sequences, FiniteSets, Bags, TLC

VARIABLES feeds, items, enclosures, images, files, run, chk, last, sent, call

vars == <<feeds, items, enclosures, images, files, run, chk, last, sent, call>>

(***************************************************************************)
(* Bounds of the model.                                                    *)
(***************************************************************************)
MaxFeeds == 2
MaxItems == 2

\* The most items of one document checkFeeds and fullFeed pass to updateItems.
CheckLimit == 9
FullLimit == 200

FeedUrls == {"u1", "u2"}
\* The title of the document served at a feed URL.
FeedTitleAt(url) == IF url = "u1" THEN "F" ELSE "G"
FeedTitles == {FeedTitleAt(u) : u \in FeedUrls}
EpisodeTitles == {"a", "b"}
\* The publish timestamp an episode carries: "b" is older than "a".
PublishedAt(title) == IF title = "a" THEN 2 ELSE 1
\* An enclosure URL is <<host, last path segment>>; an episode's media file
\* is served under the episode's own name.
EpisodeUrl(title) == <<"h1", title>>
\* The textual length field of an enclosure, as a sequence of characters.
LenTexts == {<<"7">>, <<"x">>}
Digits == {"0", "1", "2", "3", "4", "5", "6", "7", "8", "9"}

Min(S) == CHOOSE x \in S : \A y \in S : x <= y

SeqsUpTo(S, n) == UNION {[1..k -> S] : k \in 0..n}

(***************************************************************************)
(* Text of errors: a sequence of words.                                    *)
(***************************************************************************)
Contains(s, sub) ==
    \E i \in 0..(Len(s) - Len(sub)) : SubSeq(s, i + 1, i + Len(sub)) = sub

TooLargeText == <<"Request", "Entity", "Too", "Large">>
Utf8Text == <<"text", "must", "be", "encoded", "in", "UTF-8">>
TokenNotSetText == <<"EP_TG_BOT_TOKEN", "is", "not", "set">>
BotCreateText == <<"failed", "to", "create", "Telegram", "bot">>

\* What bot.Send may return: <<>> is a nil error.
SendErrors ==
    { <<>>,
      <<"telegram:">> \o TooLargeText \o <<"(413)">>,
      <<"telegram:">> \o Utf8Text,
      <<"context", "deadline", "exceeded">>,
      <<"Request", "Entity", "Large">>,
      <<"proxy:">> \o BotCreateText }

\* What telebot.NewBot may return: <<>> is a nil error.
NewBotErrors == { <<>>, <<"telegram:", "Unauthorized", "(401)">> }

(***************************************************************************)
(* strconv.ParseUint(s, 10, 64): ok iff s is a non-empty string of decimal *)
(* digits (the lengths of the model are far below 2^64).                   *)
(***************************************************************************)
DigitValue(c) ==
    CASE c = "0" -> 0 [] c = "1" -> 1 [] c = "2" -> 2 [] c = "3" -> 3
      [] c = "4" -> 4 [] c = "5" -> 5 [] c = "6" -> 6 [] c = "7" -> 7
      [] c = "8" -> 8 [] c = "9" -> 9

RECURSIVE DecimalValue(_)
DecimalValue(s) ==
    IF s = <<>> THEN 0
    ELSE 10 * DecimalValue(SubSeq(s, 1, Len(s) - 1)) + DigitValue(s[Len(s)])

ParseUint(s) ==
    IF Len(s) > 0 /\ \A i \in 1..Len(s) : s[i] \in Digits
    THEN [ok |-> TRUE, value |-> DecimalValue(s)]
    ELSE [ok |-> FALSE, value |-> 0]

(***************************************************************************)
(* The documents a feed source may return.                                 *)
(***************************************************************************)
\* One episode of a document: with no enclosure, or with its media file.
EpisodeItems ==
    {[Title |-> t, PublishedParsed |-> PublishedAt(t),
      Enclosures |-> IF media
                     THEN <<[URL |-> EpisodeUrl(t), Length |-> <<"7">>]>>
                     ELSE <<>>] :
        t \in EpisodeTitles, media \in BOOLEAN}
\* The item lists of the documents: empty, or one episode.
Batches == {<<>>} \cup {<<v>> : v \in EpisodeItems}

(***************************************************************************)
(* updateItems                                                             *)
(***************************************************************************)
\* Mutant: the lookup carries the candidate's publication state too.
FirstItemByTitle_Unpublished(its, t) ==
    LET S == IF t = "" THEN DOMAIN its
             ELSE {i \in DOMAIN its :
                      its[i].Title = t /\ its[i].TgPublished = 0}
    IN  IF S = {} THEN 0 ELSE Min(S)

\* db.Where(models.Item{Title: t}).First: a struct condition drops zero
\* fields, so an empty title selects the first Item of the table.
FirstItemByTitle(its, t) ==
    LET S == IF t = "" THEN DOMAIN its
             ELSE {i \in DOMAIN its : its[i].Title = t}
    IN  IF S = {} THEN 0 ELSE Min(S)

NewItem(v, feedId) ==
    [Title |-> v.Title, PublishedParsed |-> v.PublishedParsed,
     FeedId |-> feedId, TgPublished |-> 0]

\* Mutant: Assign in place of Attrs, the candidate overwrites the Item found.
FirstOrCreateItem_Assign(its, v, feedId) ==
    LET found == FirstItemByTitle(its, v.Title)
    IN  IF found # 0
        THEN [items |-> [its EXCEPT ![found] = NewItem(v, feedId)],
              id |-> found]
        ELSE [items |-> Append(its, NewItem(v, feedId)), id |-> Len(its) + 1]

\* Mutant: the lookup is by title within the feed.
FirstOrCreateItem_PerFeed(its, v, feedId) ==
    LET S == {i \in DOMAIN its :
                 /\ its[i].FeedId = feedId
                 /\ v.Title # "" => its[i].Title = v.Title}
    IN  IF S # {}
        THEN [items |-> its, id |-> Min(S)]
        ELSE [items |-> Append(its, NewItem(v, feedId)), id |-> Len(its) + 1]

\* db.Where(queryOnlyItem).Attrs(item).FirstOrCreate(&existingItem)
FirstOrCreateItem(its, v, feedId) ==
    LET found == FirstItemByTitle(its, v.Title)
    IN  IF found # 0
        THEN [items |-> its, id |-> found]
        ELSE [items |-> Append(its, NewItem(v, feedId)), id |-> Len(its) + 1]

\* db.Where(&models.Enclosure{Url: u}).FirstOrCreate(&models.Enclosure{}, enclosure):
\* the second argument is a query condition too, so the lookup is by every
\* non-zero field of enclosure (Url, Length, ItemId).
EnclosureMatches(e, enclosure) ==
    /\ e.Url = enclosure.Url
    /\ enclosure.Length # 0 => e.Length = enclosure.Length
    /\ enclosure.ItemId # 0 => e.ItemId = enclosure.ItemId

\* Mutant: the enclosure is created without a lookup.
FirstOrCreateEnclosure_NoLookup(encs, enclosure) == Append(encs, enclosure)

FirstOrCreateEnclosure(encs, enclosure) ==
    IF \E i \in DOMAIN encs : EnclosureMatches(encs[i], enclosure)
    THEN encs
    ELSE Append(encs, enclosure)

\* Mutant: a length that does not parse is stored as 0 and the loop goes on.
RECURSIVE EnclosureLoop_ZeroLength(_, _, _)
EnclosureLoop_ZeroLength(encs, docEncs, itemId) ==
    IF docEncs = <<>> THEN [enclosures |-> encs, err |-> FALSE]
    ELSE LET enc == Head(docEncs)
             encInt == ParseUint(enc.Length)
         IN  EnclosureLoop_ZeroLength(
                 FirstOrCreateEnclosure(encs,
                     [Url |-> enc.URL, Length |-> encInt.value, ItemId |-> itemId]),
                 Tail(docEncs), itemId)

\* The loop over v.Enclosures of one item.
RECURSIVE EnclosureLoop(_, _, _)
EnclosureLoop(encs, docEncs, itemId) ==
    IF docEncs = <<>> THEN [enclosures |-> encs, err |-> FALSE]
    ELSE LET enc == Head(docEncs)
             encInt == ParseUint(enc.Length)
         IN  IF ~encInt.ok
             THEN [enclosures |-> encs, err |-> TRUE]
             ELSE EnclosureLoop(
                      FirstOrCreateEnclosure(encs,
                          [Url |-> enc.URL, Length |-> encInt.value, ItemId |-> itemId]),
                      Tail(docEncs), itemId)

\* Mutant: a failing item is skipped and the rest of the batch is processed.
RECURSIVE updateItems_SkipFailed(_, _, _, _)
updateItems_SkipFailed(its, encs, batch, feedId) ==
    IF batch = <<>> THEN [items |-> its, enclosures |-> encs, err |-> FALSE]
    ELSE LET v == Head(batch)
             r == FirstOrCreateItem(its, v, feedId)
             e == EnclosureLoop(encs, v.Enclosures, r.id)
             rest == updateItems_SkipFailed(r.items, e.enclosures, Tail(batch),
                                            feedId)
         IN  [rest EXCEPT !.err = e.err \/ rest.err]

RECURSIVE updateItems(_, _, _, _)
updateItems(its, encs, batch, feedId) ==
    IF batch = <<>> THEN [items |-> its, enclosures |-> encs, err |-> FALSE]
    ELSE IF Len(batch) = 1
    THEN LET v == Head(batch)
             r == FirstOrCreateItem(its, v, feedId)
             e == EnclosureLoop(encs, v.Enclosures, r.id)
         IN  [items |-> r.items, enclosures |-> e.enclosures, err |-> e.err]
    \* The loop over a longer batch, written as two consecutive stretches:
    \* the later stretch starts from the tables the earlier one left and is
    \* not entered when the earlier one returned the error.
    ELSE LET h == Len(batch) \div 2
         IN  CHOOSE out \in
                 {IF s.err THEN s
                  ELSE updateItems(s.items, s.enclosures, rest, feedId) :
                      s \in {updateItems(its, encs, SubSeq(batch, 1, h), feedId)},
                      rest \in {SubSeq(batch, h + 1, Len(batch))}} : TRUE

(***************************************************************************)
(* Store queries of the publish pipeline.                                  *)
(***************************************************************************)
\* db.Where(&models.Feed{PublishReady: true}).Find(&feeds), from identity
\* `from` on, in identity order.
RECURSIVE ReadyFrom(_, _)
ReadyFrom(fs, from) ==
    IF from > Len(fs) THEN <<>>
    ELSE IF fs[from].PublishReady THEN <<from>> \o ReadyFrom(fs, from + 1)
         ELSE ReadyFrom(fs, from + 1)

getReadyFeeds(fs) == ReadyFrom(fs, 1)

\* db.First(&feed, id): 0 stands for the zero Feed of an unknown identity.
getFeedById(fs, id) == IF id \in DOMAIN fs THEN id ELSE 0

\* Mutant: every state other than 1 counts as unpublished.
UnpublishedOf_NotPublished(its, feedId) ==
    {i \in DOMAIN its : its[i].FeedId = feedId /\ its[i].TgPublished # 1}

\* feed_id = ? AND tg_published = 0
UnpublishedOf(its, feedId) ==
    {i \in DOMAIN its : its[i].FeedId = feedId /\ its[i].TgPublished = 0}

\* Mutant: Order("published_parsed desc").
getFirstUnpublishedItem_Newest(its, feedId) ==
    LET S == UnpublishedOf(its, feedId)
    IN  IF S = {} THEN 0
        ELSE CHOOSE i \in S : \A j \in S :
                 \/ its[i].PublishedParsed > its[j].PublishedParsed
                 \/ its[i].PublishedParsed = its[j].PublishedParsed /\ i <= j

\* First with Order("published_parsed asc"): ties fall to the primary key.
getFirstUnpublishedItem(its, feedId) ==
    LET S == UnpublishedOf(its, feedId)
    IN  IF S = {} THEN 0
        ELSE CHOOSE i \in S : \A j \in S :
                 \/ its[i].PublishedParsed < its[j].PublishedParsed
                 \/ its[i].PublishedParsed = its[j].PublishedParsed /\ i <= j

\* Find with Order("published_parsed asc"): every order of the rows that is
\* ascending in published_parsed (the order of equal timestamps is not fixed).
getUnpublishedItems(its, feedId) ==
    LET S == UnpublishedOf(its, feedId)
        n == Cardinality(S)
    IN  {q \in [1..n -> S] :
            /\ \A i, j \in 1..n : i # j => q[i] # q[j]
            /\ \A i, j \in 1..n :
                   i < j => its[q[i]].PublishedParsed <= its[q[j]].PublishedParsed}

\* db.Where(&models.Enclosure{ItemId: item.ID}).Limit(1).Find(&enclosures)
EnclosuresOf(encs, itemId) == {i \in DOMAIN encs : encs[i].ItemId = itemId}

\* The name downloadFile stores the body under: the last path segment.
FileName(url) == url[2]

\* Mutant: the update is lost.
updateItem_Lost(its, id) == its

\* Mutant: the update has no Where clause and marks every Item.
updateItem_AllRows(its, id) ==
    [i \in DOMAIN its |-> [its[i] EXCEPT !.TgPublished = 1]]

\* Mutant: the update is by feed and marks every Item of the Item's Feed.
updateItem_ByFeed(its, id) ==
    [i \in DOMAIN its |->
        IF its[i].FeedId = its[id].FeedId
        THEN [its[i] EXCEPT !.TgPublished = 1] ELSE its[i]]

\* updateItem: Where("id = ?", item.ID).Update("tg_published", 1)
updateItem(its, id) ==
    [i \in DOMAIN its |->
        IF i = id THEN [its[i] EXCEPT !.TgPublished = 1] ELSE its[i]]

\* Mutant: the file is not removed.
deleteFile_Kept(fls, file) == fls

\* deleteFile: os.Remove(file)
deleteFile(fls, file) == fls \ {file}

(***************************************************************************)
(* publishToTheChannel                                                     *)
(***************************************************************************)
SendErrorText(title, sendErr) ==
    <<"error", "sending", "message", "for", "item", title, ":">> \o sendErr

\* Mutant: only the too-large error is swallowed.
publishToTheChannel_Utf8Propagates(botInstance, token, newBotErr, title, sendErr) ==
    IF botInstance = "nil" /\ ~token
    THEN [err |-> TokenNotSetText, called |-> FALSE]
    ELSE IF botInstance = "nil" /\ newBotErr # <<>>
    THEN [err |-> BotCreateText \o <<":">> \o newBotErr, called |-> FALSE]
    ELSE IF sendErr = <<>>
    THEN [err |-> <<>>, called |-> TRUE]
    ELSE IF Contains(sendErr, TooLargeText)
    THEN [err |-> <<>>, called |-> TRUE]
    ELSE [err |-> SendErrorText(title, sendErr), called |-> TRUE]

\* botInstance: "nil" or "mock"; token: whether EP_TG_BOT_TOKEN is set;
\* newBotErr: what telebot.NewBot returns; sendErr: what bot.Send returns.
\* err = <<>> is a nil error; called: bot.Send was called.
publishToTheChannel(botInstance, token, newBotErr, title, sendErr) ==
    IF botInstance = "nil" /\ ~token
    THEN [err |-> TokenNotSetText, called |-> FALSE]
    ELSE IF botInstance = "nil" /\ newBotErr # <<>>
    THEN [err |-> BotCreateText \o <<":">> \o newBotErr, called |-> FALSE]
    ELSE IF sendErr = <<>>
    THEN [err |-> <<>>, called |-> TRUE]
    ELSE IF Contains(sendErr, TooLargeText)
    THEN [err |-> <<>>, called |-> TRUE]
    ELSE IF Contains(sendErr, Utf8Text)
    THEN [err |-> <<>>, called |-> TRUE]
    ELSE [err |-> SendErrorText(title, sendErr), called |-> TRUE]

\* The callers' test for a critical configuration error.
IsConfigError(err) ==
    err = TokenNotSetText \/ Contains(err, BotCreateText)

(***************************************************************************)
(* State.                                                                  *)
(*   feeds, items, enclosures : the tables, by identity                    *)
(*   images : the images table, by identity                                *)
(*   files : the names in the local temporary directory                    *)
(*   run   : the publish command in progress                               *)
(*   chk   : the checkFeeds command in progress                            *)
(*   last  : what the latest step did (history)                            *)
(*   sent  : how often bot.Send has returned success, per Item (history)   *)
(*   call  : one call of publishToTheChannel, its arguments and result     *)
(***************************************************************************)
IdleRun ==
    [mode |-> "idle", feedsQ |-> <<>>, itemsQ |-> <<>>, feed |-> 0,
     item |-> 0, file |-> ""]

IdleChk == [mode |-> "idle", queue |-> <<>>, err |-> FALSE]

NoStep == [op |-> "none", mode |-> "idle", item |-> 0, outcome |-> "none"]

NoCall == [state |-> "none"]

Init ==
    /\ feeds = <<>>
    /\ items = <<>>
    /\ enclosures = <<>>
    /\ images = <<>>
    /\ files = {}
    /\ run = IdleRun
    /\ chk = IdleChk
    /\ last = NoStep
    /\ sent = EmptyBag
    /\ call = NoCall

\* No command is running.
Idle == run.mode = "idle" /\ chk.mode = "idle"

\* A command returns once nothing is left to process.
Finish(r) ==
    IF r.file = "" /\ r.feedsQ = <<>> /\ r.itemsQ = <<>> THEN IdleRun
    ELSE IF r.file = "" /\ r.itemsQ = <<>> THEN [r EXCEPT !.feed = 0]
    ELSE r

(***************************************************************************)
(* downloadEpisode: the results it may return for an Item.  With no        *)
(* Enclosure it returns ("", nil) and makes no request; otherwise the      *)
(* download of the Enclosure found fails, or stores the file.              *)
(***************************************************************************)
downloadEpisode(encs, it) ==
    IF EnclosuresOf(encs, it) = {}
    THEN {[path |-> "", err |-> FALSE, requested |-> FALSE]}
    ELSE {[path |-> "", err |-> TRUE, requested |-> TRUE]}
         \cup {[path |-> FileName(encs[e].Url), err |-> FALSE,
                requested |-> TRUE] : e \in EnclosuresOf(encs, it)}

DownloadOutcome(d) ==
    IF d.err THEN "downloadError"
    ELSE IF d.path = "" THEN "noEnclosure" ELSE "downloaded"

\* Mutant: a failed download leaves the Item unpublished.
DownloadStep_RetryOnError(it, rest) ==
    /\ UNCHANGED <<images, feeds, enclosures, chk, sent, call>>
    /\ \E d \in downloadEpisode(enclosures, it) :
          /\ items' = IF ~d.err /\ d.path = "" THEN updateItem(items, it)
                      ELSE items
          /\ files' = IF d.path # "" THEN files \cup {d.path} ELSE files
          /\ run' = IF d.err \/ d.path = "" THEN Finish(rest)
                    ELSE [rest EXCEPT !.item = it, !.file = d.path]
          /\ last' = [op |-> "download", mode |-> rest.mode, item |-> it,
                      outcome |-> DownloadOutcome(d)]

\* Mutant: an Item with no Enclosure is skipped and stays unpublished.
DownloadStep_SkipNoEnclosure(it, rest) ==
    /\ UNCHANGED <<images, feeds, enclosures, chk, sent, call>>
    /\ \E d \in downloadEpisode(enclosures, it) :
          /\ items' = IF d.err THEN updateItem(items, it)
                      ELSE items
          /\ files' = IF d.path # "" THEN files \cup {d.path} ELSE files
          /\ run' = IF d.err \/ d.path = "" THEN Finish(rest)
                    ELSE [rest EXCEPT !.item = it, !.file = d.path]
          /\ last' = [op |-> "download", mode |-> rest.mode, item |-> it,
                      outcome |-> DownloadOutcome(d)]

(***************************************************************************)
(* The download step of every publish command: downloadEpisode, then on an *)
(* error or an empty path updateItem and on to the next Item; a downloaded *)
(* file is kept for the send step.  rest is the command's position once    *)
(* this Item is taken.                                                     *)
(***************************************************************************)
DownloadStep(it, rest) ==
    /\ UNCHANGED <<images, feeds, enclosures, chk, sent, call>>
    /\ \E d \in downloadEpisode(enclosures, it) :
          /\ items' = IF d.err \/ d.path = "" THEN updateItem(items, it)
                      ELSE items
          /\ files' = IF d.path # "" THEN files \cup {d.path} ELSE files
          /\ run' = IF d.err \/ d.path = "" THEN Finish(rest)
                    ELSE [rest EXCEPT !.item = it, !.file = d.path]
          /\ last' = [op |-> "download", mode |-> rest.mode, item |-> it,
                      outcome |-> DownloadOutcome(d)]

\* A feed or a snapshot was taken and no Item came of it.
SelectNothing(rest) ==
    /\ run' = Finish(rest)
    /\ last' = NoStep
    /\ UNCHANGED <<images, feeds, items, enclosures, files, chk, sent, call>>

\* The class of a result of publishToTheChannel, as its callers tell them apart.
Outcome(r, sendErr) ==
    IF r.err = <<>> THEN (IF sendErr = <<>> THEN "sent" ELSE "swallowed")
    ELSE IF IsConfigError(r.err) THEN "config"
    ELSE "retryable"

\* Mutant: the Item is marked published whatever the send returned.
SendStep_MarkAlways(exits) ==
    \E token \in BOOLEAN, newBotErr \in NewBotErrors, sendErr \in SendErrors :
        LET r == publishToTheChannel("nil", token, newBotErr,
                                     items[run.item].Title, sendErr)
            config == r.err # <<>> /\ IsConfigError(r.err)
            halt == config /\ exits
        IN  /\ items' = updateItem(items, run.item)
            /\ files' = IF halt THEN files ELSE deleteFile(files, run.file)
            /\ run' = IF halt THEN IdleRun
                      ELSE Finish([run EXCEPT !.item = 0, !.file = ""])
            /\ sent' = IF r.called /\ sendErr = <<>>
                       THEN sent (+) SetToBag({run.item}) ELSE sent
            /\ last' = [op |-> "send", mode |-> run.mode, item |-> run.item,
                         outcome |-> Outcome(r, sendErr)]
            /\ UNCHANGED <<images, feeds, enclosures, chk, call>>

(***************************************************************************)
(* The send step: publishToTheChannel(feed, item, episodeFile, nil) and    *)
(* the caller's handling of its result.  exits: the caller stops the       *)
(* command on a configuration error, before deleteFile.  token: whether    *)
(* os.Getenv("EP_TG_BOT_TOKEN") is non-empty at this call.                 *)
(***************************************************************************)
SendStep(exits) ==
    \E token \in BOOLEAN, newBotErr \in NewBotErrors, sendErr \in SendErrors :
        LET r == publishToTheChannel("nil", token, newBotErr,
                                     items[run.item].Title, sendErr)
            config == r.err # <<>> /\ IsConfigError(r.err)
            halt == config /\ exits
        IN  /\ items' = IF r.err = <<>> THEN updateItem(items, run.item)
                        ELSE items
            /\ files' = IF halt THEN files ELSE deleteFile(files, run.file)
            /\ run' = IF halt THEN IdleRun
                      ELSE Finish([run EXCEPT !.item = 0, !.file = ""])
            /\ sent' = IF r.called /\ sendErr = <<>>
                       THEN sent (+) SetToBag({run.item}) ELSE sent
            /\ last' = [op |-> "send", mode |-> run.mode, item |-> run.item,
                         outcome |-> Outcome(r, sendErr)]
            /\ UNCHANGED <<images, feeds, enclosures, chk, call>>

(***************************************************************************)
(* publish                                                                 *)
(***************************************************************************)
StartRun(mode) ==
    /\ Idle
    /\ run' = Finish([IdleRun EXCEPT !.mode = mode,
                                     !.feedsQ = getReadyFeeds(feeds)])
    /\ last' = NoStep
    /\ UNCHANGED <<images, feeds, items, enclosures, files, chk, sent, call>>

publishStart == StartRun("publish")

\* for _, feed := range feeds { items := getUnpublishedItems(db, feed)
publishNextFeed ==
    /\ run.mode = "publish" /\ run.file = "" /\ run.itemsQ = <<>>
    /\ run.feedsQ # <<>>
    /\ \E q \in getUnpublishedItems(items, Head(run.feedsQ)) :
          SelectNothing([run EXCEPT !.feed = Head(run.feedsQ),
                                    !.feedsQ = Tail(run.feedsQ),
                                    !.itemsQ = q])

\* Mutant: the Item stays at the head of the snapshot.
publishDownload_KeepItem ==
    /\ run.mode = "publish" /\ run.file = "" /\ run.itemsQ # <<>>
    /\ DownloadStep(Head(run.itemsQ), run)

publishDownload ==
    /\ run.mode = "publish" /\ run.file = "" /\ run.itemsQ # <<>>
    /\ DownloadStep(Head(run.itemsQ), [run EXCEPT !.itemsQ = Tail(run.itemsQ)])

\* Mutant: a retryable error ends the cycle.
publishSend_StopOnRetryable ==
    /\ run.mode = "publish" /\ run.file # ""
    /\ \E token \in BOOLEAN, newBotErr \in NewBotErrors, sendErr \in SendErrors :
        LET r == publishToTheChannel("nil", token, newBotErr,
                                     items[run.item].Title, sendErr)
        IN  /\ items' = IF r.err = <<>> THEN updateItem(items, run.item)
                        ELSE items
            /\ files' = IF r.err # <<>> /\ IsConfigError(r.err) THEN files
                        ELSE deleteFile(files, run.file)
            /\ run' = IF r.err # <<>> THEN IdleRun
                      ELSE Finish([run EXCEPT !.item = 0, !.file = ""])
            /\ sent' = IF r.called /\ sendErr = <<>>
                       THEN sent (+) SetToBag({run.item}) ELSE sent
            /\ last' = [op |-> "send", mode |-> run.mode, item |-> run.item,
                         outcome |-> Outcome(r, sendErr)]
            /\ UNCHANGED <<images, feeds, enclosures, chk, call>>

\* A configuration error ends the process: os.Exit(1).
publishSend ==
    /\ run.mode = "publish" /\ run.file # ""
    /\ SendStep(TRUE)

(***************************************************************************)
(* publishOneItem                                                          *)
(***************************************************************************)
publishOneItemStart == StartRun("publishOneItem")

\* Mutant: the feed stays at the head of the loop after its Item.
publishOneItemDownload_KeepFeed ==
    /\ run.mode = "publishOneItem" /\ run.file = "" /\ run.feedsQ # <<>>
    /\ LET feed == Head(run.feedsQ)
           item == getFirstUnpublishedItem(items, feed)
           rest == [run EXCEPT !.feed = feed, !.feedsQ = Tail(run.feedsQ)]
       IN  IF item = 0 THEN SelectNothing(rest)
           ELSE DownloadStep(item, [run EXCEPT !.feed = feed])

publishOneItemDownload ==
    /\ run.mode = "publishOneItem" /\ run.file = "" /\ run.feedsQ # <<>>
    /\ LET feed == Head(run.feedsQ)
           item == getFirstUnpublishedItem(items, feed)
           rest == [run EXCEPT !.feed = feed, !.feedsQ = Tail(run.feedsQ)]
       IN  IF item = 0 THEN SelectNothing(rest) ELSE DownloadStep(item, rest)

\* A configuration error is logged only: the loop goes on to deleteFile.
publishOneItemSend ==
    /\ run.mode = "publishOneItem" /\ run.file # ""
    /\ SendStep(FALSE)

(***************************************************************************)
(* publishOnebyFeedId                                                      *)
(***************************************************************************)
publishOnebyFeedIdDownload ==
    /\ Idle
    /\ \E feedId \in 1..MaxFeeds :
          LET feed == getFeedById(feeds, feedId)
              item == getFirstUnpublishedItem(items, feed)
              rest == [IdleRun EXCEPT !.mode = "publishOnebyFeedId",
                                      !.feed = feed]
          IN  IF item = 0
              THEN /\ run' = IdleRun
                   /\ last' = NoStep
                   /\ UNCHANGED <<images, feeds, items, enclosures, files, chk, sent,
                                  call>>
              ELSE DownloadStep(item, rest)

\* A configuration error returns before deleteFile.
publishOnebyFeedIdSend ==
    /\ run.mode = "publishOnebyFeedId" /\ run.file # ""
    /\ SendStep(TRUE)

(***************************************************************************)
(* addFeed                                                                 *)
(***************************************************************************)
\* db.Where(&models.Feed{Feed: feedURL}).First(&feed): the lowest identity
\* that matches, 0 when none does; an empty value is no condition.
FirstFeedByUrl(fs, feedURL) ==
    LET S == IF feedURL = "" THEN DOMAIN fs
             ELSE {i \in DOMAIN fs : fs[i].Feed = feedURL}
    IN  IF S = {} THEN 0 ELSE Min(S)

\* db.Where(&models.Feed{Title: title}).First(&feed)
FirstFeedByTitle(fs, title) ==
    LET S == IF title = "" THEN DOMAIN fs
             ELSE {i \in DOMAIN fs : fs[i].Title = title}
    IN  IF S = {} THEN 0 ELSE Min(S)

\* The feed addFeed resolves to, and the table after it: by URL, then by a
\* non-empty title, else a new Feed.
addFeedResolve(fs, feedURL, title) ==
    LET byUrl == FirstFeedByUrl(fs, feedURL)
        byTitle == FirstFeedByTitle(fs, title)
        mf == [Title |-> title, Feed |-> feedURL, PublishReady |-> FALSE]
    IN  IF byUrl # 0 THEN [feeds |-> fs, id |-> byUrl]
        ELSE IF title # "" /\ byTitle # 0 THEN [feeds |-> fs, id |-> byTitle]
        ELSE [feeds |-> Append(fs, mf), id |-> Len(fs) + 1]

\* The documents of this specification carry no image: feedData.Image is nil.
addFeed ==
    /\ Idle
    /\ \E feedURL \in FeedUrls, fetched \in BOOLEAN :
        LET r == addFeedResolve(feeds, feedURL, FeedTitleAt(feedURL))
        IN  /\ Len(r.feeds) <= MaxFeeds
            /\ feeds' = IF fetched THEN r.feeds ELSE feeds
            /\ last' = NoStep
            /\ UNCHANGED <<images, items, enclosures, files, run, chk, sent, call>>

\* The operator sets or clears a Feed's publish-ready flag in the store.
setPublishReady ==
    /\ Idle
    /\ \E f \in DOMAIN feeds :
        /\ feeds' = [feeds EXCEPT ![f].PublishReady = ~feeds[f].PublishReady]
        /\ last' = NoStep
        /\ UNCHANGED <<images, items, enclosures, files, run, chk, sent, call>>

(***************************************************************************)
(* reInitFeeds: for every Feed whose source parses, the Feed's Image row   *)
(* is replaced, created or deleted and the Feed is saved as it was read.   *)
(* The documents of this specification carry no image and addFeed has      *)
(* stored none, so there is no Image to replace, create or delete; the     *)
(* step writes no Item, no Enclosure and no file, and the Feed rows it      *)
(* saves carry the values it read at its start.                            *)
(***************************************************************************)
reInitFeeds ==
    /\ Idle
    /\ feeds # <<>>
    /\ feeds' = [f \in DOMAIN feeds |-> feeds[f]]
    /\ last' = [NoStep EXCEPT !.op = "reInitFeeds"]
    /\ UNCHANGED <<images, items, enclosures, files, run, chk, sent, call>>

(***************************************************************************)
(* fullFeed and checkFeeds                                                 *)
(***************************************************************************)
\* What an updateItems call of at most one item did: the Item its title
\* resolved to, and whether that Item existed before the call.
IngestStep(its, batch, err) ==
    IF batch = <<>> THEN NoStep
    ELSE LET found == FirstItemByTitle(its, batch[1].Title)
         IN  [op |-> "updateItems", mode |-> "idle",
              item |-> IF found # 0 THEN found ELSE Len(its) + 1,
              outcome |-> IF err THEN "error"
                          ELSE IF found # 0 THEN "existing" ELSE "created"]

\* Mutant: the newest n by publish timestamp are taken, not the first n.
Take_Newest(batch, n) ==
    IF Len(batch) > n
    THEN LET newest == {j \in DOMAIN batch :
                          Cardinality({i \in DOMAIN batch :
                              batch[i].PublishedParsed
                                  > batch[j].PublishedParsed}) < n}
         IN  SelectSeq(batch, LAMBDA v :
                 \E j \in newest : batch[j] = v)
    ELSE batch

\* feedData.Items[:n] when the document has more than n items.
Take(batch, n) == IF Len(batch) > n THEN SubSeq(batch, 1, n) ELSE batch

fullFeed ==
    /\ Idle
    /\ \E feedTitle \in FeedTitles, fetched \in BOOLEAN, doc \in Batches :
        LET feed == FirstFeedByTitle(feeds, feedTitle)
            r == updateItems(items, enclosures, Take(doc, FullLimit), feed)
        IN  IF feed = 0 \/ ~fetched
            THEN /\ doc = <<>>
                 /\ last' = NoStep
                 /\ UNCHANGED <<images, feeds, items, enclosures, files, run, chk,
                                sent, call>>
            ELSE /\ Len(r.items) <= MaxItems
                 /\ items' = r.items
                 /\ enclosures' = r.enclosures
                 /\ last' = IngestStep(items, Take(doc, FullLimit), r.err)
                 /\ UNCHANGED <<images, feeds, files, run, chk, sent, call>>

checkFeedsStart ==
    /\ Idle
    /\ chk' = IF feeds = <<>> THEN IdleChk
              ELSE [mode |-> "run", err |-> FALSE,
                    queue |-> [i \in 1..Len(feeds) |-> i]]
    /\ last' = NoStep
    /\ UNCHANGED <<images, feeds, items, enclosures, files, run, sent, call>>

\* One iteration of the loop over the feeds; the call returns after the last.
checkFeedsStep ==
    /\ chk.mode = "run"
    /\ \E fetched \in BOOLEAN, doc \in Batches :
          LET feed == Head(chk.queue)
              r == updateItems(items, enclosures, Take(doc, CheckLimit), feed)
              failed == IF fetched THEN r.err ELSE TRUE
              err == chk.err \/ failed
          IN  /\ fetched => Len(r.items) <= MaxItems
              /\ ~fetched => doc = <<>>
              /\ items' = IF fetched THEN r.items ELSE items
              /\ enclosures' = IF fetched THEN r.enclosures ELSE enclosures
              /\ chk' = IF Tail(chk.queue) = <<>> THEN IdleChk
                        ELSE [chk EXCEPT !.queue = Tail(chk.queue), !.err = err]
              /\ last' = IF fetched
                         THEN IngestStep(items, Take(doc, CheckLimit), r.err)
                         ELSE NoStep
    /\ UNCHANGED <<images, feeds, files, run, sent, call>>

Next ==
    \/ addFeed
    \/ setPublishReady
    \/ reInitFeeds
    \/ fullFeed
    \/ checkFeedsStart
    \/ checkFeedsStep
    \/ publishStart
    \/ publishNextFeed
    \/ publishDownload
    \/ publishSend
    \/ publishOneItemStart
    \/ publishOneItemDownload
    \/ publishOneItemSend
    \/ publishOnebyFeedIdDownload
    \/ publishOnebyFeedIdSend

Spec == Init /\ [][Next]_vars


(***************************************************************************)
(* SpecChannel: publishToTheChannel on its own.  The arguments and the     *)
(* environment of one call are drawn at the start; the one step applies    *)
(* the function and records what it returned and whether bot.Send ran.     *)
(***************************************************************************)
BotInstances == {"nil", "mock"}

InitChannel ==
    /\ feeds = <<>>
    /\ items = <<>>
    /\ enclosures = <<>>
    /\ images = <<>>
    /\ files = {}
    /\ run = IdleRun
    /\ chk = IdleChk
    /\ last = NoStep
    /\ sent = EmptyBag
    /\ call \in [state : {"ready"}, botInstance : BotInstances,
                 token : BOOLEAN, newBotErr : NewBotErrors,
                 title : EpisodeTitles, sendErr : SendErrors,
                 err : {<<>>}, called : {FALSE}]

publishToTheChannelCall ==
    /\ call.state = "ready"
    /\ LET r == publishToTheChannel(call.botInstance, call.token,
                                    call.newBotErr, call.title, call.sendErr)
       IN  call' = [call EXCEPT !.state = "done", !.err = r.err,
                                !.called = r.called]
    /\ UNCHANGED <<images, feeds, items, enclosures, files, run, chk, last, sent>>

NextChannel == publishToTheChannelCall

SpecChannel == InitChannel /\ [][NextChannel]_vars

(***************************************************************************)
(* SpecIngest: updateItems on its own, over documents with empty titles,   *)
(* repeated titles and unparsable enclosure lengths, for two registered    *)
(* Feeds.  Between two calls the pipeline may mark an Item published.      *)
(***************************************************************************)
MaxBatch == 2

IngestTitles == {"", "a"}

IngestEnclosures ==
    {<<>>} \cup {<<[URL |-> <<"h1", "m">>, Length |-> l]>> : l \in LenTexts}

\* The episodes a feed's document may list; the documents of the two feeds
\* date their episodes differently.
IngestItemsOf(feed) ==
    {[Title |-> t, PublishedParsed |-> feed, Enclosures |-> e] :
        t \in IngestTitles, e \in IngestEnclosures}

InitIngest ==
    /\ feeds = <<[Title |-> "F", Feed |-> "u1", PublishReady |-> FALSE],
                 [Title |-> "G", Feed |-> "u2", PublishReady |-> FALSE]>>
    /\ items = <<>>
    /\ enclosures = <<>>
    /\ images = <<>>
    /\ files = {}
    /\ run = IdleRun
    /\ chk = IdleChk
    /\ last = NoStep
    /\ sent = EmptyBag
    /\ call = NoCall

\* The non-empty titles of a batch that an Item of the table already has.
ExistingTitles(its, batch) ==
    {batch[k].Title : k \in DOMAIN batch}
        \cap ({its[i].Title : i \in DOMAIN its} \ {""})

ingestUpdateItems ==
    \E feed \in DOMAIN feeds :
      \E batch \in SeqsUpTo(IngestItemsOf(feed), MaxBatch) :
        LET r == updateItems(items, enclosures, batch, feed)
        IN  /\ items' = r.items
            /\ enclosures' = r.enclosures
            /\ call' = [state |-> "updateItems", feed |-> feed,
                        hits |-> ExistingTitles(items, batch)]
            /\ UNCHANGED <<images, feeds, files, run, chk, last, sent>>

ingestPublished ==
    \E i \in DOMAIN items :
        /\ items[i].TgPublished = 0
        /\ items' = updateItem(items, i)
        /\ call' = NoCall
        /\ UNCHANGED <<images, feeds, enclosures, files, run, chk, last, sent>>

NextIngest ==
    \/ ingestUpdateItems
    \/ ingestPublished

SpecIngest == InitIngest /\ [][NextIngest]_vars


(***************************************************************************)
(* SpecBatch: one updateItems call on a batch whose items list up to two   *)
(* enclosures, some with a length that does not parse.  The tables hold    *)
(* what an earlier call has stored.                                        *)
(***************************************************************************)
BatchTitles == {"", "a", "b"}

MediaUrl1 == <<"h1", "m1">>
MediaUrl2 == <<"h1", "m2">>

\* The enclosure lists of one item.
BatchEnclosures ==
    {<<>>}
    \cup {<<[URL |-> MediaUrl1, Length |-> l]>> : l \in LenTexts}
    \cup {<<[URL |-> MediaUrl1, Length |-> l1],
            [URL |-> MediaUrl2, Length |-> l2]>> : l1, l2 \in LenTexts}

BatchItems ==
    {[Title |-> t, PublishedParsed |-> 1, Enclosures |-> e] :
        t \in BatchTitles, e \in BatchEnclosures}

\* The batches of the earlier call.
PriorBatches ==
    { <<>>,
      <<[Title |-> "a", PublishedParsed |-> 2,
         Enclosures |-> <<[URL |-> MediaUrl1, Length |-> <<"7">>]>>]>>,
      <<[Title |-> "b", PublishedParsed |-> 2, Enclosures |-> <<>>]>> }

InitBatch ==
    /\ feeds = <<[Title |-> "F", Feed |-> "u1", PublishReady |-> FALSE],
                 [Title |-> "G", Feed |-> "u2", PublishReady |-> FALSE]>>
    /\ \E prior \in PriorBatches :
          LET r == updateItems(<<>>, <<>>, prior, 1)
          IN  items = r.items /\ enclosures = r.enclosures
    /\ images = <<>>
    /\ files = {}
    /\ run = IdleRun
    /\ chk = IdleChk
    /\ last = NoStep
    /\ sent = EmptyBag
    /\ call \in [state : {"ready"}, feed : {1, 2},
                 batch : SeqsUpTo(BatchItems, MaxBatch), err : {FALSE}]

batchUpdateItems ==
    /\ call.state = "ready"
    /\ LET r == updateItems(items, enclosures, call.batch, call.feed)
       IN  /\ items' = r.items
           /\ enclosures' = r.enclosures
           /\ call' = [call EXCEPT !.state = "done", !.err = r.err]
    /\ UNCHANGED <<feeds, images, files, run, chk, last, sent>>

NextBatch == batchUpdateItems

SpecBatch == InitBatch /\ [][NextBatch]_vars

(***************************************************************************)
(* checkFeeds and fullFeed as functions of the tables and of what the feed *)
(* source returns.  A fetch result is [ok, Items]: ok is FALSE when        *)
(* fp.ParseURL returns an error.  tried lists the Feeds whose source was   *)
(* asked, in order; fetched tells whether fullFeed asked the source.       *)
(***************************************************************************)
\* Mutant: the loop ends at the first Feed that fails.
RECURSIVE CheckFeedsLoop_StopOnError(_, _, _, _, _, _)
CheckFeedsLoop_StopOnError(its, encs, queue, fetch, err, tried) ==
    IF queue = <<>> \/ err
    THEN [items |-> its, enclosures |-> encs, err |-> err, tried |-> tried]
    ELSE LET feed == Head(queue)
             d == fetch[feed]
             r == updateItems(its, encs, Take(d.Items, CheckLimit), feed)
         IN  IF ~d.ok
             THEN CheckFeedsLoop_StopOnError(its, encs, Tail(queue), fetch,
                                             TRUE, Append(tried, feed))
             ELSE CheckFeedsLoop_StopOnError(r.items, r.enclosures,
                                             Tail(queue), fetch, err \/ r.err,
                                             Append(tried, feed))

\* The loop of checkFeeds over the Feeds still to check.
RECURSIVE CheckFeedsLoop(_, _, _, _, _, _)
CheckFeedsLoop(its, encs, queue, fetch, err, tried) ==
    IF queue = <<>>
    THEN [items |-> its, enclosures |-> encs, err |-> err, tried |-> tried]
    ELSE LET feed == Head(queue)
             d == fetch[feed]
             r == updateItems(its, encs, Take(d.Items, CheckLimit), feed)
         IN  IF ~d.ok
             THEN CheckFeedsLoop(its, encs, Tail(queue), fetch, TRUE,
                                 Append(tried, feed))
             ELSE CheckFeedsLoop(r.items, r.enclosures, Tail(queue), fetch,
                                 err \/ r.err, Append(tried, feed))

checkFeedsRun(its, encs, fs, fetch) ==
    CheckFeedsLoop(its, encs, [i \in 1..Len(fs) |-> i], fetch, FALSE, <<>>)

\* Mutant: a title that no Feed has falls back to the first Feed.
fullFeedRun_FirstFeed(its, encs, fs, feedTitle, d) ==
    LET found == FirstFeedByTitle(fs, feedTitle)
        feed == IF found = 0 /\ fs # <<>> THEN 1 ELSE found
        r == updateItems(its, encs, Take(d.Items, FullLimit), feed)
    IN  IF feed = 0
        THEN [items |-> its, enclosures |-> encs, err |-> TRUE,
              fetched |-> FALSE]
        ELSE IF ~d.ok
        THEN [items |-> its, enclosures |-> encs, err |-> TRUE,
              fetched |-> TRUE]
        ELSE [items |-> r.items, enclosures |-> r.enclosures, err |-> r.err,
              fetched |-> TRUE]

fullFeedRun(its, encs, fs, feedTitle, d) ==
    LET feed == FirstFeedByTitle(fs, feedTitle)
        r == updateItems(its, encs, Take(d.Items, FullLimit), feed)
    IN  IF feed = 0
        THEN [items |-> its, enclosures |-> encs, err |-> TRUE,
              fetched |-> FALSE]
        ELSE IF ~d.ok
        THEN [items |-> its, enclosures |-> encs, err |-> TRUE,
              fetched |-> TRUE]
        ELSE [items |-> r.items, enclosures |-> r.enclosures, err |-> r.err,
              fetched |-> TRUE]

(***************************************************************************)
(* SpecSync: checkFeeds and fullFeed calls, one after another, on two      *)
(* registered Feeds whose sources fail, or return a document of at most    *)
(* one episode, with or without an enclosure, of a length that parses or   *)
(* not.                                                                    *)
(***************************************************************************)
SyncItems ==
    {[Title |-> t, PublishedParsed |-> PublishedAt(t), Enclosures |-> e] :
        t \in EpisodeTitles,
        e \in {<<>>} \cup {<<[URL |-> MediaUrl1, Length |-> l]>> :
                              l \in LenTexts}}

FetchFailed == [ok |-> FALSE, Items |-> <<>>]

SyncResults ==
    {FetchFailed} \cup {[ok |-> TRUE, Items |-> b] : b \in SeqsUpTo(SyncItems, 1)}

\* The titles the fullFeed command is given: never empty (Execute rejects
\* an empty -feed flag).
SyncTitles == {"F", "G", "H"}

syncCheckFeeds ==
    \E fetch \in [DOMAIN feeds -> SyncResults] :
        LET r == checkFeedsRun(items, enclosures, feeds, fetch)
        IN  /\ items' = r.items
            /\ enclosures' = r.enclosures
            /\ call' = [state |-> "checkFeeds", fetch |-> fetch,
                        err |-> r.err, tried |-> r.tried]
            /\ UNCHANGED <<feeds, images, files, run, chk, last, sent>>

syncFullFeed ==
    \E feedTitle \in SyncTitles, d \in SyncResults :
        LET r == fullFeedRun(items, enclosures, feeds, feedTitle, d)
        IN  /\ items' = r.items
            /\ enclosures' = r.enclosures
            /\ call' = [state |-> "fullFeed", feedTitle |-> feedTitle,
                        fetch |-> d, err |-> r.err, fetched |-> r.fetched]
            /\ UNCHANGED <<feeds, images, files, run, chk, last, sent>>

NextSync ==
    \/ syncCheckFeeds
    \/ syncFullFeed

SpecSync == InitIngest /\ [][NextSync]_vars

(***************************************************************************)
(* SpecRepeat: the same updateItems call, or the same checkFeeds call with *)
(* sources that return the same documents, made MaxRuns times in a row on  *)
(* two registered Feeds.  The tables are empty or hold what an earlier     *)
(* call stored, with its first Item published or not.                      *)
(***************************************************************************)
MaxRuns == 2

RepeatResults ==
    {FetchFailed}
    \cup {[ok |-> TRUE, Items |-> b] :
             b \in SeqsUpTo(IngestItemsOf(1) \cup IngestItemsOf(2), 1)}

RepeatPriors ==
    {[items |-> <<>>, enclosures |-> <<>>]}
    \cup {[items |-> r.items, enclosures |-> r.enclosures] :
             r \in {updateItems(<<>>, <<>>, <<v>>, 2) : v \in IngestItemsOf(2)}}
    \cup {[items |-> updateItem(r.items, 1), enclosures |-> r.enclosures] :
             r \in {updateItems(<<>>, <<>>, <<v>>, 2) : v \in IngestItemsOf(2)}}

InitRepeat ==
    /\ feeds = <<[Title |-> "F", Feed |-> "u1", PublishReady |-> FALSE],
                 [Title |-> "G", Feed |-> "u2", PublishReady |-> FALSE]>>
    /\ \E prior \in RepeatPriors :
          items = prior.items /\ enclosures = prior.enclosures
    /\ images = <<>>
    /\ files = {}
    /\ run = IdleRun
    /\ chk = IdleChk
    /\ last = NoStep
    /\ sent = EmptyBag
    /\ \/ call \in [state : {"updateItems"}, feed : {1, 2},
                     batch : SeqsUpTo(IngestItemsOf(1), MaxBatch),
                     runs : {0}, err : {FALSE}]
       \/ call \in [state : {"checkFeeds"},
                     fetch : [{1, 2} -> RepeatResults],
                     runs : {0}, err : {FALSE}]

repeatUpdateItems ==
    /\ call.state = "updateItems"
    /\ call.runs < MaxRuns
    /\ LET r == updateItems(items, enclosures, call.batch, call.feed)
       IN  /\ items' = r.items
           /\ enclosures' = r.enclosures
           /\ call' = [call EXCEPT !.runs = @ + 1, !.err = r.err]
    /\ UNCHANGED <<images, feeds, files, run, chk, last, sent>>

repeatCheckFeeds ==
    /\ call.state = "checkFeeds"
    /\ call.runs < MaxRuns
    /\ LET r == checkFeedsRun(items, enclosures, feeds, call.fetch)
       IN  /\ items' = r.items
           /\ enclosures' = r.enclosures
           /\ call' = [call EXCEPT !.runs = @ + 1, !.err = r.err]
    /\ UNCHANGED <<images, feeds, files, run, chk, last, sent>>

NextRepeat ==
    \/ repeatUpdateItems
    \/ repeatCheckFeeds

SpecRepeat == InitRepeat /\ [][NextRepeat]_vars

(***************************************************************************)
(* SpecService: service(), the publish cycle repeated for ever, on two     *)
(* Feeds whose Items all have an Enclosure.  The operator may set or clear *)
(* a publish-ready flag between two cycles.  os.Exit(1) on a configuration *)
(* error ends the service: no cycle starts after it.  target is the Item   *)
(* whose delivery is followed.                                             *)
(*                                                                         *)
(* Fairness: the loop of service() goes on (the service's own steps are    *)
(* weakly fair), and the Notifier does not answer the sends of the target  *)
(* with a retryable error for ever (a send of the target that ends sent or *)
(* swallowed is strongly fair).  No such condition is made for any other   *)
(* Item.                                                                   *)
(***************************************************************************)
ServiceItems ==
    <<[Title |-> "a", PublishedParsed |-> 1, FeedId |-> 1, TgPublished |-> 0],
      [Title |-> "b", PublishedParsed |-> 2, FeedId |-> 1, TgPublished |-> 0],
      [Title |-> "c", PublishedParsed |-> 1, FeedId |-> 2, TgPublished |-> 0]>>

ServiceEnclosures ==
    [i \in 1..3 |-> [Url |-> EpisodeUrl(ServiceItems[i].Title), Length |-> 7,
                     ItemId |-> i]]

InitService ==
    /\ feeds \in {<<[Title |-> "F", Feed |-> "u1", PublishReady |-> r1],
                    [Title |-> "G", Feed |-> "u2", PublishReady |-> r2]>> :
                     r1, r2 \in BOOLEAN}
    /\ items = ServiceItems
    /\ enclosures = ServiceEnclosures
    /\ images = <<>>
    /\ files = {}
    /\ run = IdleRun
    /\ chk = IdleChk
    /\ last = NoStep
    /\ sent = EmptyBag
    /\ call \in [state : {"service"}, target : DOMAIN ServiceItems]

\* for { publish(); time.Sleep(10 * time.Minute) }
serviceStart ==
    /\ last.outcome # "config"
    /\ publishStart

ServiceStep ==
    \/ serviceStart
    \/ publishNextFeed
    \/ publishDownload
    \/ publishSend

\* A send of the target that the Notifier accepts, or refuses for good.
TargetSettled ==
    /\ publishSend
    /\ run.item = call.target
    /\ last'.outcome \in {"sent", "swallowed"}

NextService ==
    \/ serviceStart
    \/ publishNextFeed
    \/ publishDownload
    \/ publishSend
    \/ setPublishReady

SpecService ==
    /\ InitService
    /\ [][NextService]_vars
    /\ WF_vars(ServiceStep)
    /\ SF_vars(TargetSettled)

(***************************************************************************)
(* SpecLimit: one checkFeeds or fullFeed call for a single Feed whose      *)
(* document lists n episodes of distinct titles, oldest first or newest    *)
(* first.  The tables are empty, or hold what a checkFeeds call stored     *)
(* from a document of 12 episodes, oldest first.                           *)
(***************************************************************************)
MaxDocLen == 205

\* Episode k: its title is the numeral of k, its publish timestamp is k.
EpisodeNo(k) ==
    [Title |-> ToString(k), PublishedParsed |-> k, Enclosures |-> <<>>]

DocOf(n, order) ==
    [j \in 1..n |-> EpisodeNo(IF order = "oldestFirst" THEN j ELSE n + 1 - j)]

OneFeed == <<[Title |-> "F", Feed |-> "u1", PublishReady |-> FALSE]>>

InitLimit ==
    /\ feeds = OneFeed
    /\ \E before \in {0, 12} :
          LET fetch == [f \in {1} |->
                          [ok |-> TRUE, Items |-> DocOf(before, "oldestFirst")]]
              r == checkFeedsRun(<<>>, <<>>, OneFeed, fetch)
          IN  items = r.items /\ enclosures = r.enclosures
    /\ images = <<>>
    /\ files = {}
    /\ run = IdleRun
    /\ chk = IdleChk
    /\ last = NoStep
    /\ sent = EmptyBag
    /\ call \in [state : {"ready"}, op : {"checkFeeds", "fullFeed"},
                 n : 0..MaxDocLen, order : {"oldestFirst", "newestFirst"},
                 err : {FALSE}]

limitCheckFeeds ==
    /\ call.state = "ready" /\ call.op = "checkFeeds"
    /\ LET fetch == [f \in {1} |->
                       [ok |-> TRUE, Items |-> DocOf(call.n, call.order)]]
           r == checkFeedsRun(items, enclosures, feeds, fetch)
       IN  /\ items' = r.items
           /\ enclosures' = r.enclosures
           /\ call' = [call EXCEPT !.state = "done", !.err = r.err]
    /\ UNCHANGED <<feeds, images, files, run, chk, last, sent>>

limitFullFeed ==
    /\ call.state = "ready" /\ call.op = "fullFeed"
    /\ LET d == [ok |-> TRUE, Items |-> DocOf(call.n, call.order)]
           r == fullFeedRun(items, enclosures, feeds, "F", d)
       IN  /\ items' = r.items
           /\ enclosures' = r.enclosures
           /\ call' = [call EXCEPT !.state = "done", !.err = r.err]
    /\ UNCHANGED <<feeds, images, files, run, chk, last, sent>>

NextLimit ==
    \/ limitCheckFeeds
    \/ limitFullFeed

SpecLimit == InitLimit /\ [][NextLimit]_vars

(***************************************************************************)
(* SpecRegister: addFeed and reInitFeeds as whole calls, from the empty    *)
(* store.  The document served at a URL may change between two fetches:    *)
(* every fetch draws its title and its image anew.  A URL given to addFeed *)
(* is never empty (Execute rejects an empty -feed flag).                   *)
(***************************************************************************)
MaxImages == 2

RegisterUrls == {"u1", "u2"}
RegisterTitles == {"", "F", "G"}
\* feedData.Image: nil, or an image with or without a URL.
RegisterImages ==
    {<<>>, <<[URL |-> "i1", Title |-> "t1"]>>, <<[URL |-> "", Title |-> "t1"]>>}
ParseFailed == [ok |-> FALSE, Title |-> "", Image |-> <<>>]
RegisterDocs ==
    {ParseFailed} \cup
    {[ok |-> TRUE, Title |-> t, Image |-> i] :
        t \in RegisterTitles, i \in RegisterImages}
\* reInitFeeds reads the image of a document and nothing else of it.
ReInitDocs == {d \in RegisterDocs : d.Title = ""}

\* db.Where(&models.Image{FeedId: feedId}).First / FirstOrCreate: the lowest
\* identity among the rows not deleted that match; an empty value is no
\* condition.
FirstImage(imgs, feedId, url, title) ==
    LET S == {i \in DOMAIN imgs :
                /\ ~imgs[i].Deleted
                /\ imgs[i].FeedId = feedId
                /\ url = "" \/ imgs[i].Url = url
                /\ title = "" \/ imgs[i].Title = title}
    IN  IF S = {} THEN 0 ELSE Min(S)

NewImage(feedId, im) ==
    [Url |-> im.URL, Title |-> im.Title, FeedId |-> feedId, Deleted |-> FALSE]

\* if feedData.Image != nil { ... FirstOrCreate(&models.Image{}, image) }
addFeedImage(imgs, feedId, docImage) ==
    IF docImage = <<>> THEN imgs
    ELSE IF FirstImage(imgs, feedId, docImage[1].URL, docImage[1].Title) # 0
    THEN imgs
    ELSE Append(imgs, NewImage(feedId, docImage[1]))

\* Mutant: a Feed found by title takes over the URL of the call.
addFeedRun_AdoptUrl(fs, imgs, feedURL, d) ==
    LET r == addFeedResolve(fs, feedURL, d.Title)
    IN  IF ~d.ok
        THEN [feeds |-> fs, images |-> imgs, id |-> 0, err |-> TRUE]
        ELSE [feeds |-> [r.feeds EXCEPT ![r.id].Feed = feedURL],
              images |-> addFeedImage(imgs, r.id, d.Image),
              id |-> r.id, err |-> FALSE]

\* Mutant: a failed fetch registers the URL with an empty title.
addFeedRun_CreateOnFailure(fs, imgs, feedURL, d) ==
    LET r == addFeedResolve(fs, feedURL, d.Title)
    IN  IF FirstFeedByUrl(fs, feedURL) # 0
        THEN [feeds |-> fs, images |-> imgs, id |-> r.id, err |-> ~d.ok]
        ELSE [feeds |-> r.feeds,
              images |-> addFeedImage(imgs, r.id, d.Image),
              id |-> r.id, err |-> ~d.ok]

\* Mutant: the title lookup is skipped, every URL not stored gets a Feed.
addFeedRun_UrlOnly(fs, imgs, feedURL, d) ==
    LET byUrl == FirstFeedByUrl(fs, feedURL)
        mf == [Title |-> d.Title, Feed |-> feedURL, PublishReady |-> FALSE]
    IN  IF ~d.ok
        THEN [feeds |-> fs, images |-> imgs, id |-> 0, err |-> TRUE]
        ELSE IF byUrl # 0
        THEN [feeds |-> fs, images |-> imgs, id |-> byUrl, err |-> FALSE]
        ELSE [feeds |-> Append(fs, mf),
              images |-> addFeedImage(imgs, Len(fs) + 1, d.Image),
              id |-> Len(fs) + 1, err |-> FALSE]

\* addFeed as one call: the tables after it, the identity of the Feed it
\* returns (0 with an error) and whether it returns an error.  A Feed found
\* by URL is returned before the image is looked at.
addFeedRun(fs, imgs, feedURL, d) ==
    LET r == addFeedResolve(fs, feedURL, d.Title)
    IN  IF ~d.ok
        THEN [feeds |-> fs, images |-> imgs, id |-> 0, err |-> TRUE]
        ELSE IF FirstFeedByUrl(fs, feedURL) # 0
        THEN [feeds |-> fs, images |-> imgs, id |-> r.id, err |-> FALSE]
        ELSE [feeds |-> r.feeds,
              images |-> addFeedImage(imgs, r.id, d.Image),
              id |-> r.id, err |-> FALSE]

\* One turn of the reInitFeeds loop on the images table.  An image with a
\* URL replaces the Feed's first Image row or is created; without one the
\* first Image row is deleted.  db.Save(&currentFeed) then saves the Feed
\* with its Image field: when that field carries no identity (no row
\* existed) the save may insert a row of its own (twice).
reInitImage(imgs, f, d, twice) ==
    LET existing == FirstImage(imgs, f, "", "")
    IN  IF ~d.ok THEN imgs
        ELSE IF d.Image # <<>> /\ d.Image[1].URL # ""
        THEN IF existing # 0
             THEN [imgs EXCEPT ![existing].Url = d.Image[1].URL,
                               ![existing].Title = d.Image[1].Title]
             ELSE IF twice
             THEN imgs \o <<NewImage(f, d.Image[1]), NewImage(f, d.Image[1])>>
             ELSE Append(imgs, NewImage(f, d.Image[1]))
        ELSE IF existing # 0
        THEN [imgs EXCEPT ![existing].Deleted = TRUE]
        ELSE imgs

\* Mutant: the loop ends at the first Feed whose fetch fails.
RECURSIVE reInitLoop_StopOnError(_, _, _, _, _)
reInitLoop_StopOnError(imgs, queue, fetch, twice, err) ==
    IF queue = <<>> \/ err THEN [images |-> imgs, err |-> err]
    ELSE reInitLoop_StopOnError(
             reInitImage(imgs, Head(queue), fetch[Head(queue)], twice),
             Tail(queue), fetch, twice, ~fetch[Head(queue)].ok)

\* for i := range feeds { ... }: a Feed whose fetch fails sets
\* encounteredError and the loop continues with the next Feed.
RECURSIVE reInitLoop(_, _, _, _, _)
reInitLoop(imgs, queue, fetch, twice, err) ==
    IF queue = <<>> THEN [images |-> imgs, err |-> err]
    ELSE reInitLoop(reInitImage(imgs, Head(queue), fetch[Head(queue)], twice),
                    Tail(queue), fetch, twice,
                    err \/ ~fetch[Head(queue)].ok)

\* One addFeed call on a document of docs.
addFeedCall(docs) ==
    /\ Idle
    /\ \E feedURL \in RegisterUrls, d \in docs :
        LET r == addFeedRun(feeds, images, feedURL, d)
        IN  /\ Len(r.feeds) <= MaxFeeds
            /\ Len(r.images) <= MaxImages
            /\ feeds' = r.feeds
            /\ images' = r.images
            /\ call' = [state |-> "addFeed", feedURL |-> feedURL,
                        ok |-> d.ok, title |-> d.Title, image |-> d.Image,
                        id |-> r.id, err |-> r.err]
            /\ last' = [NoStep EXCEPT !.op = "addFeed"]
            /\ UNCHANGED <<items, enclosures, files, run, chk, sent>>

\* One reInitFeeds call, every Feed's fetch drawing from docs.
reInitFeedsCall(docs) ==
    /\ Idle
    /\ \E fetch \in [DOMAIN feeds -> docs], twice \in BOOLEAN :
        LET r == reInitLoop(images, [i \in 1..Len(feeds) |-> i], fetch,
                            twice, FALSE)
        IN  /\ Len(r.images) <= MaxImages
            /\ images' = r.images
            /\ feeds' = [f \in DOMAIN feeds |-> feeds[f]]
            /\ call' = [state |-> "reInitFeeds", fetch |-> fetch,
                        err |-> r.err]
            /\ last' = [NoStep EXCEPT !.op = "reInitFeeds"]
            /\ UNCHANGED <<items, enclosures, files, run, chk, sent>>

registerAddFeed == addFeedCall(RegisterDocs)

registerReInitFeeds == reInitFeedsCall(ReInitDocs)

NextRegister ==
    \/ registerAddFeed
    \/ registerReInitFeeds

SpecRegister == Init /\ [][NextRegister]_vars

(***************************************************************************)
(* SpecStore: every command on one store, from the empty store.  The       *)
(* documents carry no image; a document lists one episode with one         *)
(* enclosure.                                                              *)
(***************************************************************************)
PlainDocs == {d \in RegisterDocs : d.Image = <<>>}

StoreEpisode ==
    [Title |-> "a", PublishedParsed |-> PublishedAt("a"),
     Enclosures |-> <<[URL |-> EpisodeUrl("a"), Length |-> <<"7">>]>>]

StoreResults == {FetchFailed, [ok |-> TRUE, Items |-> <<StoreEpisode>>]}

storeAddFeed == addFeedCall(PlainDocs)

storeReInitFeeds == reInitFeedsCall({d \in PlainDocs : d.Title = ""})

storeCheckFeeds ==
    /\ Idle
    /\ \E fetch \in [DOMAIN feeds -> StoreResults] :
        LET r == checkFeedsRun(items, enclosures, feeds, fetch)
        IN  /\ items' = r.items
            /\ enclosures' = r.enclosures
            /\ last' = [NoStep EXCEPT !.op = "checkFeeds"]
            /\ UNCHANGED <<feeds, images, files, run, chk, sent, call>>

storeFullFeed ==
    /\ Idle
    /\ \E feedTitle \in RegisterTitles \ {""}, d \in StoreResults :
        LET r == fullFeedRun(items, enclosures, feeds, feedTitle, d)
        IN  /\ items' = r.items
            /\ enclosures' = r.enclosures
            /\ last' = [NoStep EXCEPT !.op = "fullFeed"]
            /\ UNCHANGED <<feeds, images, files, run, chk, sent, call>>

NextStore ==
    \/ storeAddFeed
    \/ storeReInitFeeds
    \/ storeCheckFeeds
    \/ storeFullFeed
    \/ setPublishReady
    \/ publishStart
    \/ publishNextFeed
    \/ publishDownload
    \/ publishSend

SpecStore == Init /\ [][NextStore]_vars

(***************************************************************************)
(* SpecSelect: getFirstUnpublishedItem and getUnpublishedItems applied to  *)
(* an items table.  tg_published is an integer column: the commands write  *)
(* 0 and 1, the queries are also given a row of another value.             *)
(***************************************************************************)
MaxRows == 3

Stamps == 1..3
SelectFeeds == {1, 2}
TgStates == {0, 1, 2}

SelectTables ==
    UNION {{[i \in 1..n |-> [Title |-> ToString(i),
                            PublishedParsed |-> at[i],
                            FeedId |-> of[i],
                            TgPublished |-> st[i]]] :
               at \in [1..n -> Stamps], of \in [1..n -> SelectFeeds],
               st \in [1..n -> TgStates]} : n \in 0..MaxRows}

InitSelect ==
    /\ feeds = <<[Title |-> "F", Feed |-> "u1", PublishReady |-> TRUE],
                 [Title |-> "G", Feed |-> "u2", PublishReady |-> TRUE]>>
    /\ items \in SelectTables
    /\ enclosures = <<>>
    /\ images = <<>>
    /\ files = {}
    /\ run = IdleRun
    /\ chk = IdleChk
    /\ last = NoStep
    /\ sent = EmptyBag
    /\ call \in [state : {"ready"}, feed : SelectFeeds]

selectFirst ==
    /\ call.state = "ready"
    /\ call' = [state |-> "first", feed |-> call.feed,
                item |-> getFirstUnpublishedItem(items, call.feed)]
    /\ UNCHANGED <<feeds, items, enclosures, images, files, run, chk, last,
                   sent>>

selectAll ==
    /\ call.state = "ready"
    /\ \E q \in getUnpublishedItems(items, call.feed) :
          call' = [state |-> "all", feed |-> call.feed, rows |-> q]
    /\ UNCHANGED <<feeds, items, enclosures, images, files, run, chk, last,
                   sent>>

NextSelect ==
    \/ selectFirst
    \/ selectAll

SpecSelect == InitSelect /\ [][NextSelect]_vars

(***************************************************************************)
(* SpecCaption: the caption publishToTheChannel hands to bot.Send.  A Go   *)
(* string is a sequence of bytes: len counts bytes and s[:n] cuts at a     *)
(* byte.  A byte of the model names its character (c), how many bytes the  *)
(* character has in UTF-8 (w) and which of them it is (p).                 *)
(***************************************************************************)
SubtitleLimit == 800
OmitSubtitleFeed == 34

Ascii(c) == <<[c |-> c, w |-> 1, p |-> 1]>>

\* n one-byte characters.
AsciiRun(n) == [i \in 1..n |-> [c |-> "s", w |-> 1, p |-> 1]]
\* n two-byte characters (a Cyrillic letter, say).
WideRun(n) ==
    [i \in 1..(2 * n) |-> [c |-> "W", w |-> 2, p |-> IF i % 2 = 1 THEN 1 ELSE 2]]

\* The subtitle of an episode: one-byte characters, then two-byte ones.
SubtitleOf(ascii, wide) == AsciiRun(ascii) \o WideRun(wide)

AsciiCounts ==
    {0, 1, SubtitleLimit - 1, SubtitleLimit, SubtitleLimit + 1,
     SubtitleLimit + 100}
WideCounts == {0, 1, SubtitleLimit \div 2, SubtitleLimit \div 2 + 1}
CaptionFeeds == {1, OmitSubtitleFeed}
ExtraLinkText == Ascii("h") \o Ascii("/") \o Ascii("x")
NewLine == Ascii("\n")
Ellipsis == Ascii(".") \o Ascii(".") \o Ascii(".")

\* Mutant: the subtitle is kept for every feed.
SubtitleSegment_NoSentinel(subtitle, feedId) ==
    IF Len(subtitle) > SubtitleLimit
    THEN SubSeq(subtitle, 1, SubtitleLimit) \o Ellipsis
    ELSE subtitle

\* subtitle := item.ItunesSubtitle; if len(...) > 800 { ...[:800] + "..." };
\* if item.FeedId == 34 { subtitle = "" }
SubtitleSegment(subtitle, feedId) ==
    IF feedId = OmitSubtitleFeed THEN <<>>
    ELSE IF Len(subtitle) > SubtitleLimit
    THEN SubSeq(subtitle, 1, SubtitleLimit) \o Ellipsis
    ELSE subtitle

\* fmt.Sprintf("*%s*\n\n%s", item.Title, subtitle), the subtitle with
\* "\n\n" and feed.ExtraLink appended when feed.ExtraLinkEnabled.
Caption(title, subtitle, feedId, extraLinkEnabled, extraLink) ==
    Ascii("*") \o title \o Ascii("*") \o NewLine \o NewLine
        \o SubtitleSegment(subtitle, feedId)
        \o (IF extraLinkEnabled THEN NewLine \o NewLine \o extraLink
            ELSE <<>>)

InitCaption ==
    /\ feeds = <<>>
    /\ items = <<>>
    /\ enclosures = <<>>
    /\ images = <<>>
    /\ files = {}
    /\ run = IdleRun
    /\ chk = IdleChk
    /\ last = NoStep
    /\ sent = EmptyBag
    /\ call \in [state : {"ready"}, title : EpisodeTitles,
                 ascii : AsciiCounts, wide : WideCounts,
                 feedId : CaptionFeeds, extraLinkEnabled : BOOLEAN,
                 caption : {<<>>}]

captionCall ==
    /\ call.state = "ready"
    /\ call' = [call EXCEPT
                   !.state = "done",
                   !.caption = Caption(Ascii(call.title),
                                       SubtitleOf(call.ascii, call.wide),
                                       call.feedId, call.extraLinkEnabled,
                                       ExtraLinkText)]
    /\ UNCHANGED <<feeds, items, enclosures, images, files, run, chk, last,
                   sent>>

NextCaption == captionCall

SpecCaption == InitCaption /\ [][NextCaption]_vars

(***************************************************************************)
(* SpecDownload: one downloadFile call on a temporary directory that may   *)
(* hold files of earlier runs.  fault names the step of the call that      *)
(* fails, tmp the name os.CreateTemp picks: one the directory has not.     *)
(***************************************************************************)
DownloadUrls == {EpisodeUrl(t) : t \in EpisodeTitles}
TempNames == {"echopan_1", "echopan_2"}
DownloadFaults ==
    {"none", "get", "status", "createTemp", "copy", "close", "rename"}

\* Mutant: a failed Close returns without removing the temporary file.
downloadFile_CloseLeak(fls, url, fault, tmp) ==
    IF fault \in {"get", "status", "createTemp"}
    THEN [path |-> "", err |-> TRUE, files |-> fls]
    ELSE IF fault = "copy"
    THEN [path |-> "", err |-> TRUE, files |-> (fls \cup {tmp}) \ {tmp}]
    ELSE IF fault = "close"
    THEN [path |-> "", err |-> TRUE, files |-> fls \cup {tmp}]
    ELSE IF fault = "rename"
    THEN [path |-> "", err |-> TRUE, files |-> (fls \cup {tmp}) \ {tmp}]
    ELSE [path |-> FileName(url), err |-> FALSE,
          files |-> ((fls \cup {tmp}) \ {tmp}) \cup {FileName(url)}]

\* downloadFile: before os.CreateTemp succeeds nothing is written; a failed
\* io.Copy is cleaned up by the deferred Remove, a failed Close and a failed
\* Rename by their own Remove; os.Rename moves the temporary file to the
\* final name.
downloadFile(fls, url, fault, tmp) ==
    IF fault \in {"get", "status", "createTemp"}
    THEN [path |-> "", err |-> TRUE, files |-> fls]
    ELSE IF fault \in {"copy", "close", "rename"}
    THEN [path |-> "", err |-> TRUE, files |-> (fls \cup {tmp}) \ {tmp}]
    ELSE [path |-> FileName(url), err |-> FALSE,
          files |-> ((fls \cup {tmp}) \ {tmp}) \cup {FileName(url)}]

InitDownload ==
    /\ feeds = <<>>
    /\ items = <<>>
    /\ enclosures = <<>>
    /\ images = <<>>
    /\ files \in SUBSET ({FileName(u) : u \in DownloadUrls} \cup {"echopan_1"})
    /\ run = IdleRun
    /\ chk = IdleChk
    /\ last = NoStep
    /\ sent = EmptyBag
    /\ call \in [state : {"ready"}, url : DownloadUrls,
                 fault : DownloadFaults, tmp : {""}, path : {""},
                 err : {FALSE}]

downloadFileCall ==
    /\ call.state = "ready"
    /\ \E tmp \in TempNames \ files :
          LET r == downloadFile(files, call.url, call.fault, tmp)
          IN  /\ files' = r.files
              /\ call' = [call EXCEPT !.state = "done", !.tmp = tmp,
                                      !.path = r.path, !.err = r.err]
    /\ UNCHANGED <<feeds, items, enclosures, images, run, chk, last, sent>>

NextDownload == downloadFileCall

SpecDownload == InitDownload /\ [][NextDownload]_vars

(***************************************************************************)
(* SpecFileName: the name downloadFile gives the stored file.  urlStr is   *)
(* the URL of the request, path the path of resp.Request.URL (the URL the  *)
(* redirects ended at).  Texts are byte sequences as in SpecCaption.       *)
(***************************************************************************)
NameLimit == 100

Bytes(cs) == [i \in DOMAIN cs |-> [c |-> cs[i], w |-> 1, p |-> 1]]

Dot == Ascii(".")
Slash == Ascii("/")
Mp3Ext == Bytes(<<".", "m", "p", "3">>)
TxtExt == Bytes(<<".", "t", "x", "t">>)
TarGzExt == Bytes(<<".", "t", "a", "r", ".", "g", "z">>)
FallbackName ==
    Bytes(<<"d", "o", "w", "n", "l", "o", "a", "d", "e", "d", "_", "f", "i",
            "l", "e">>)

\* strings.HasSuffix
HasSuffix(s, suffix) ==
    /\ Len(s) >= Len(suffix)
    /\ SubSeq(s, Len(s) - Len(suffix) + 1, Len(s)) = suffix

\* strings.TrimSuffix
TrimSuffix(s, suffix) ==
    IF HasSuffix(s, suffix) THEN SubSeq(s, 1, Len(s) - Len(suffix)) ELSE s

\* filepath.Base: "." for the empty path, trailing slashes dropped, the part
\* after the last slash, "/" for a path of slashes only.
Base(path) ==
    IF path = <<>> THEN Dot
    ELSE LET kept == {i \in DOMAIN path : path[i] # Slash[1]}
         IN  IF kept = {} THEN Slash
             ELSE LET end == CHOOSE i \in kept : \A j \in kept : j <= i
                      cuts == {i \in 1..end : path[i] = Slash[1]}
                      start == IF cuts = {} THEN 0
                               ELSE CHOOSE i \in cuts : \A j \in cuts : j <= i
                  IN  SubSeq(path, start + 1, end)

\* filepath.Ext: the suffix from the last dot of the last element, "" when
\* the last element has no dot.
Ext(path) ==
    LET dots == {i \in DOMAIN path :
                    /\ path[i] = Dot[1]
                    /\ \A j \in i..Len(path) : path[j] # Slash[1]}
    IN  IF dots = {} THEN <<>>
        ELSE SubSeq(path, CHOOSE i \in dots : \A j \in dots : j <= i,
                    Len(path))

\* Mutant: the stem is not cut.
fileNameOf_NoCut(urlStr, path) ==
    LET fileName == IF HasSuffix(path, Mp3Ext) THEN Base(path)
                    ELSE IF Base(path) = Dot \/ Base(path) = Slash
                    THEN FallbackName
                    ELSE Base(path)
        originalExt == Ext(fileName)
        nameWithoutExt == TrimSuffix(fileName, originalExt)
    IN  IF HasSuffix(urlStr, Mp3Ext) \/ fileName = FallbackName
        THEN nameWithoutExt \o Mp3Ext
        ELSE IF originalExt # <<>>
        THEN nameWithoutExt \o originalExt
        ELSE nameWithoutExt \o Mp3Ext

\* downloadFile, from finalURL := resp.Request.URL to the last assignment
\* of fileName.
fileNameOf(urlStr, path) ==
    LET fileName == IF HasSuffix(path, Mp3Ext) THEN Base(path)
                    ELSE IF Base(path) = Dot \/ Base(path) = Slash
                    THEN FallbackName
                    ELSE Base(path)
        originalExt == Ext(fileName)
        trimmed == TrimSuffix(fileName, originalExt)
        nameWithoutExt == IF Len(trimmed) > NameLimit
                          THEN SubSeq(trimmed, 1, NameLimit)
                          ELSE trimmed
    IN  IF HasSuffix(urlStr, Mp3Ext) \/ fileName = FallbackName
        THEN nameWithoutExt \o Mp3Ext
        ELSE IF originalExt # <<>>
        THEN nameWithoutExt \o originalExt
        ELSE nameWithoutExt \o Mp3Ext

\* The paths a request resolves to: a directory, a last segment of one-byte
\* and two-byte characters, an extension; "" and "/" are among them.
PathDirs == {Slash, Bytes(<<"/", "p", "/">>)}
PathExts == {<<>>, Mp3Ext, TxtExt, TarGzExt}
StemAscii == {0, 1, NameLimit - 1, NameLimit, NameLimit + 1, NameLimit + 50}
StemWide == {0, NameLimit \div 2 + 1}
\* The URL of the request: the resolved one, or one that was redirected.
Sources == {"same", "mp3", "other"}

PathOf(c) ==
    IF c.empty THEN <<>>
    ELSE c.dir \o AsciiRun(c.ascii) \o WideRun(c.wide) \o c.ext

UrlStrOf(c) ==
    IF c.source = "same" THEN Bytes(<<"h", ":">>) \o PathOf(c)
    ELSE IF c.source = "mp3" THEN Bytes(<<"h", ":", "/", "r">>) \o Mp3Ext
    ELSE Bytes(<<"h", ":", "/", "r">>)

InitFileName ==
    /\ feeds = <<>>
    /\ items = <<>>
    /\ enclosures = <<>>
    /\ images = <<>>
    /\ files = {}
    /\ run = IdleRun
    /\ chk = IdleChk
    /\ last = NoStep
    /\ sent = EmptyBag
    /\ call \in [state : {"ready"}, empty : BOOLEAN, dir : PathDirs,
                 ascii : StemAscii, wide : StemWide, ext : PathExts,
                 source : Sources, fileName : {<<>>}]
    /\ call.empty => /\ call.dir = Slash /\ call.ascii = 0 /\ call.wide = 0
                     /\ call.ext = <<>>

\* A download with no failing step: the body is stored under fileName.
fileNameCall ==
    /\ call.state = "ready"
    /\ call' = [call EXCEPT !.state = "done",
                            !.fileName = fileNameOf(UrlStrOf(call),
                                                    PathOf(call))]
    /\ files' = {call'.fileName}
    /\ UNCHANGED <<feeds, items, enclosures, images, run, chk, last, sent>>

NextFileName == fileNameCall

SpecFileName == InitFileName /\ [][NextFileName]_vars

(***************************************************************************)
(* SpecConnect: one DbConnect call.  The parameters are written down by    *)
(* the caller or built by InitDbParams from the environment; open tells    *)
(* whether gorm.Open succeeds.  A panic value is a sequence of the         *)
(* strings it is concatenated from; <<>> stands for no panic.              *)
(***************************************************************************)
DbTypeSqlite == "sqlite"
DbTypePostgres == "postgres"

DbTypes == {"", DbTypeSqlite, DbTypePostgres, "mysql"}
DbFiles == {"", ":memory:", "test.db", "/no/such/dir/test.db"}
DbDSNs == {"", "host=db"}
OpenError == "unable to open database file"

\* InitDbParams: ECHOPAN_DB_TYPE defaults to sqlite.
InitDbParams(env) ==
    [Type |-> IF env.Type = "" THEN DbTypeSqlite ELSE env.Type,
     File |-> env.File, DSN |-> env.DSN]

\* openPostgres
openPostgres(dsn, open) ==
    IF ~open
    THEN [db |-> FALSE,
          panic |-> <<"failed to connect postgres database: ", OpenError>>]
    ELSE [db |-> TRUE, panic |-> <<>>]

\* DbConnect
DbConnect(params, open) ==
    IF params.Type = DbTypeSqlite
    THEN IF params.File = ""
         THEN [db |-> FALSE,
               panic |-> <<"database file path is required for sqlite">>]
         ELSE IF ~open
         THEN [db |-> FALSE,
               panic |-> <<"failed to connect sqlite database: ", OpenError>>]
         ELSE [db |-> TRUE, panic |-> <<>>]
    ELSE IF params.Type = DbTypePostgres
    THEN IF params.DSN = ""
         THEN [db |-> FALSE, panic |-> <<"DSN is required for postgres">>]
         ELSE openPostgres(params.DSN, open)
    ELSE [db |-> FALSE,
          panic |-> <<"unsupported database type: ", params.Type>>]

InitConnect ==
    /\ feeds = <<>>
    /\ items = <<>>
    /\ enclosures = <<>>
    /\ images = <<>>
    /\ files = {}
    /\ run = IdleRun
    /\ chk = IdleChk
    /\ last = NoStep
    /\ sent = EmptyBag
    /\ call \in [state : {"ready"}, via : {"literal", "InitDbParams"},
                 Type : DbTypes, File : DbFiles, DSN : DbDSNs,
                 open : BOOLEAN, db : {FALSE}, panic : {<<>>}]

ParamsOf(c) ==
    IF c.via = "InitDbParams"
    THEN InitDbParams([Type |-> c.Type, File |-> c.File, DSN |-> c.DSN])
    ELSE [Type |-> c.Type, File |-> c.File, DSN |-> c.DSN]

dbConnectCall ==
    /\ call.state = "ready"
    /\ LET r == DbConnect(ParamsOf(call), call.open)
       IN  call' = [call EXCEPT !.state = "done", !.db = r.db,
                                !.panic = r.panic]
    /\ UNCHANGED <<feeds, items, enclosures, images, files, run, chk, last,
                   sent>>

NextConnect == dbConnectCall

SpecConnect == InitConnect /\ [][NextConnect]_vars

(***************************************************************************)
(* Properties.                                                             *)
(***************************************************************************)
Published(i) == items[i].TgPublished = 1

\* The step marks Item i published.
Marks(i) == items[i].TgPublished = 0 /\ items'[i].TgPublished = 1

DeliveryOutcomes == {"sent", "swallowed"}
SkipOutcomes == {"downloadError", "noEnclosure"}

\* The step is a download or send step of a publish command.
PipelineStep == last'.op \in {"download", "send"}

\* C1: at-most-once delivery.  Whatever publish cycles, in whatever modes,
\* and ingest, register and resync commands have run, bot.Send has returned
\* success at most once for every Item; an Item whose send succeeded is
\* marked published, and neither the Item in hand nor any Item of the
\* snapshot still to be processed has been sent before.
C1_AtMostOnceDelivery ==
    /\ \A i \in DOMAIN items : CopiesIn(i, sent) <= 1
    /\ \A i \in DOMAIN items : CopiesIn(i, sent) = 1 => Published(i)
    /\ run.item # 0 => CopiesIn(run.item, sent) = 0
    /\ \A k \in DOMAIN run.itemsQ : CopiesIn(run.itemsQ[k], sent) = 0

\* An Item was delivered in an earlier cycle and a later cycle over the same
\* feed holds the downloaded file of another Item.
C1_Witness ==
    \E i \in DOMAIN items :
        /\ CopiesIn(i, sent) = 1
        /\ run.mode = "publishOnebyFeedId"
        /\ run.file # ""
        /\ run.feed = items[i].FeedId
        /\ run.item # i

\* C2: publication state is monotonic.  No step of ingest, register, resync
\* or publish takes an Item's state from 1 back to 0 or removes the Item;
\* the state only ever changes to 1, on a pipeline step for that Item; a
\* new Item starts at 0.
C2_PublicationMonotonic ==
    [][ /\ \A i \in DOMAIN items :
              /\ i \in DOMAIN items'
              /\ Published(i) => items'[i].TgPublished = 1
              /\ items'[i].TgPublished # items[i].TgPublished
                    => Marks(i) /\ PipelineStep /\ last'.item = i
        /\ \A i \in DOMAIN items' \ DOMAIN items : items'[i].TgPublished = 0
      ]_vars

\* A published Item's title has just been ingested again.
C2_Witness ==
    /\ last.op = "updateItems"
    /\ last.outcome = "existing"
    /\ Published(last.item)

\* C3: retry after a transient failure.  In every publish mode, when
\* publishToTheChannel has returned an error that its caller does not take
\* for a configuration error, the Item is unpublished afterwards, every
\* result of getUnpublishedItems for its feed contains it, and in the
\* one-item modes, whose selection it was, it is again the result of
\* getFirstUnpublishedItem.
C3_RetryAfterTransientFailure ==
    (last.op = "send" /\ last.outcome = "retryable") =>
        LET i == last.item
            f == items[i].FeedId
        IN  /\ items[i].TgPublished = 0
            /\ \A q \in getUnpublishedItems(items, f) :
                  \E k \in DOMAIN q : q[k] = i
            /\ last.mode \in {"publishOneItem", "publishOnebyFeedId"}
                  => getFirstUnpublishedItem(items, f) = i

\* A send of the full-drain cycle failed with a retryable error and the
\* cycle is going on.
C3_Witness ==
    /\ last.op = "send"
    /\ last.outcome = "retryable"
    /\ last.mode = "publish"
    /\ run.mode = "publish"

\* C5: in every publish mode a configuration error ends the cycle at once
\* (nothing further is selected, downloaded or sent) and the failing Item
\* stays unpublished.
C5_ConfigErrorHaltsCycle ==
    (last.op = "send" /\ last.outcome = "config") =>
        /\ run.mode = "idle"
        /\ items[last.item].TgPublished = 0

\* The files left behind: all but the one the running cycle holds.
LeftFiles(fls, r) == fls \ {r.file}

\* The step is the configuration-error halt of publish or publishOnebyFeedId.
ConfigHalt ==
    /\ last'.op = "send"
    /\ last'.outcome = "config"
    /\ last'.mode \in {"publish", "publishOnebyFeedId"}

\* C6 as stated: whenever the processing of an Item has ended on a path
\* other than the configuration-error path, no downloaded file of that Item
\* remains; and at most one downloaded file exists at any time.
C6_NoFileRemains ==
    /\ (/\ last.op \in {"download", "send"}
        /\ last.outcome \in {"sent", "swallowed", "retryable",
                             "downloadError", "noEnclosure"})
          => \A e \in EnclosuresOf(enclosures, last.item) :
                 FileName(enclosures[e].Url) \notin files
    /\ Cardinality(files) <= 1

\* C6, amended: a step adds at most the file the running cycle then holds,
\* and the files left behind never grow except on the configuration-error
\* halt of publish and publishOnebyFeedId: every other end of an Item's
\* processing removes the file that processing downloaded.  (A file orphaned
\* by an earlier halt stays until a later cycle downloads and deletes the
\* same name.)
C6_CleanupExceptConfigHalt ==
    [][ /\ files' \subseteq files \cup {run'.file}
        /\ \/ LeftFiles(files', run') \subseteq LeftFiles(files, run)
           \/ ConfigHalt
      ]_vars

\* A send failed with a retryable error and no file is left.
C6_Witness ==
    /\ last.op = "send"
    /\ last.outcome = "retryable"
    /\ files = {}

\* C7 as stated: an Item becomes published only on a step that delivered it
\* or got a send error classified as non-retryable.
C7_OnlyAfterDelivery ==
    [][ \A i \in DOMAIN items :
            Marks(i) => /\ last'.op = "send"
                        /\ last'.item = i
                        /\ last'.outcome \in DeliveryOutcomes
      ]_vars

\* C7, amended: the state is 0 or 1; an Item becomes published only on the
\* pipeline step for it that delivered it, got a swallowed send error, failed
\* to download it or found no enclosure for it; and every such step finds
\* the Item unpublished, so the transition is applied once.
C7_OnlyAfterPipelineOutcome ==
    [][ /\ \A i \in DOMAIN items' : items'[i].TgPublished \in {0, 1}
        /\ \A i \in DOMAIN items :
              Marks(i) =>
                  /\ last'.item = i
                  /\ \/ last'.op = "send"
                        /\ last'.outcome \in DeliveryOutcomes
                     \/ last'.op = "download"
                        /\ last'.outcome \in SkipOutcomes
        /\ (PipelineStep /\ last'.outcome \in DeliveryOutcomes \cup SkipOutcomes)
              => Marks(last'.item)
      ]_vars

\* An Item was published by a failed download, another by a delivery.
C7_Witness ==
    /\ last.op = "download"
    /\ last.outcome = "downloadError"
    /\ Published(last.item)
    /\ \E i \in DOMAIN items : i # last.item /\ CopiesIn(i, sent) = 1

\* The command goes on after a step that ends an Item's processing: the
\* work that was left is still to be done, in the same mode.
CycleContinues ==
    /\ (run.mode = "publish" /\ Len(run.itemsQ) > 1)
          => /\ run'.mode = "publish"
             /\ run'.itemsQ = Tail(run.itemsQ)
             /\ run'.feedsQ = run.feedsQ
    /\ (run.mode = "publish" /\ Len(run.itemsQ) = 1 /\ run.feedsQ # <<>>)
          => /\ run'.mode = "publish"
             /\ run'.feedsQ = run.feedsQ
    /\ (run.mode = "publishOneItem" /\ Len(run.feedsQ) > 1)
          => /\ run'.mode = "publishOneItem"
             /\ run'.feedsQ = Tail(run.feedsQ)

\* C8: download failure.  In every publish mode, when downloadEpisode fails
\* for the selected Item (which has an enclosure), the Item is marked
\* published, bot.Send is not called, no file is kept, and the cycle goes on
\* with the next item or feed; a published Item is never selected again.
C8_DownloadFailure ==
    [][ /\ (last'.op = "download" /\ last'.outcome = "downloadError") =>
              /\ EnclosuresOf(enclosures, last'.item) # {}
              /\ Marks(last'.item)
              /\ sent' = sent
              /\ files' = files
              /\ run'.file = "" /\ run'.item = 0
              /\ CycleContinues
        /\ PipelineStep => items[last'.item].TgPublished = 0
        /\ \A k \in DOMAIN run'.itemsQ : items'[run'.itemsQ[k]].TgPublished = 0
      ]_vars

\* A download of the full-drain cycle failed and the cycle has Items left.
C8_Witness ==
    /\ last.op = "download"
    /\ last.outcome = "downloadError"
    /\ run.mode = "publish"
    /\ run.itemsQ # <<>>
    /\ Published(last.item)

\* C9: no enclosure.  For an Item with no Enclosure downloadEpisode returns
\* an empty path and no error and makes no request, and only for such an
\* Item; the pipeline then marks the Item published, calls bot.Send for
\* nothing and keeps no file.
C9_NoEnclosure ==
    [][ /\ \A i \in DOMAIN items :
              EnclosuresOf(enclosures, i) = {}
                  <=> downloadEpisode(enclosures, i)
                         = {[path |-> "", err |-> FALSE, requested |-> FALSE]}
        /\ (last'.op = "download"
              /\ EnclosuresOf(enclosures, last'.item) = {}) =>
              /\ last'.outcome = "noEnclosure"
              /\ Marks(last'.item)
              /\ sent' = sent
              /\ files' = files
              /\ run'.file = ""
        /\ (last'.op = "download" /\ last'.outcome = "noEnclosure")
              => EnclosuresOf(enclosures, last'.item) = {}
      ]_vars

\* An Item with no Enclosure was selected and is now published, unsent.
C9_Witness ==
    /\ last.op = "download"
    /\ last.outcome = "noEnclosure"
    /\ Published(last.item)
    /\ CopiesIn(last.item, sent) = 0

(***************************************************************************)
(* publishToTheChannel's outcome classes.                                  *)
(***************************************************************************)
Swallowed(sendErr) ==
    Contains(sendErr, TooLargeText) \/ Contains(sendErr, Utf8Text)

\* nil: the send succeeded, or failed with a swallowed error.
ClassNil ==
    /\ call.called
    /\ call.sendErr = <<>> \/ Swallowed(call.sendErr)
    /\ call.err = <<>>

\* non-nil: any other send error, wrapped.
ClassSendError ==
    /\ call.called
    /\ call.sendErr # <<>> /\ ~Swallowed(call.sendErr)
    /\ call.err = SendErrorText(call.title, call.sendErr)

\* No bot instance, no token: the token error, and no send.
ClassTokenNotSet ==
    /\ call.botInstance = "nil" /\ ~call.token
    /\ ~call.called
    /\ call.err = TokenNotSetText

\* No bot instance, a token, and telebot.NewBot fails: the bot-creation
\* error, and no send.
ClassBotNotCreated ==
    /\ call.botInstance = "nil" /\ call.token /\ call.newBotErr # <<>>
    /\ ~call.called
    /\ call.err = BotCreateText \o <<":">> \o call.newBotErr

C10_IngestionDedup ==
    [][ /\ \A i, j \in DOMAIN items' :
              (i # j /\ items'[i].Title # "")
                  => items'[i].Title # items'[j].Title
        /\ call'.state = "updateItems" =>
              \A i \in DOMAIN items :
                  items[i].Title \in call'.hits =>
                      /\ items'[i] = items[i]
                      /\ Cardinality({j \in DOMAIN items' :
                             items'[j].Title = items[i].Title}) = 1
      ]_vars

\* A published Item's title was ingested again, from the other feed.
C10_Witness ==
    /\ call.state = "updateItems"
    /\ \E i \in DOMAIN items :
          /\ items[i].Title \in call.hits
          /\ Published(i)
          /\ items[i].FeedId # call.feed


(***************************************************************************)
(* Properties of one updateItems call (SpecBatch).                         *)
(***************************************************************************)
\* The enclosures of a document item whose length does not parse.
BadEnclosures(v) ==
    {e \in DOMAIN v.Enclosures : ~ParseUint(v.Enclosures[e].Length).ok}

\* The first item of a batch with such an enclosure (0: none), and the
\* first such enclosure of that item.
FailItem(batch) ==
    LET S == {j \in DOMAIN batch : BadEnclosures(batch[j]) # {}}
    IN  IF S = {} THEN 0 ELSE Min(S)

FailEnclosure(batch) == Min(BadEnclosures(batch[FailItem(batch)]))

\* The Item a document item belongs to: the one its title resolves to.
Resolved(its, v) == FirstItemByTitle(its, v.Title)

\* Enclosure e of document item v is stored, for the Item v belongs to.
Stored(encs, its, v, e) ==
    \E r \in DOMAIN encs :
        /\ encs[r].Url = v.Enclosures[e].URL
        /\ encs[r].Length = ParseUint(v.Enclosures[e].Length).value
        /\ encs[r].ItemId = Resolved(its, v)

\* The step is the updateItems call on a batch with a failing item.
FailingCall == call.state = "ready" /\ FailItem(call.batch) # 0

\* Row r of the enclosures table comes from an enclosure of v listed before
\* position f.
RowFrom(encs, its, r, v, f) ==
    \E e \in DOMAIN v.Enclosures :
        /\ e < f
        /\ encs[r].Url = v.Enclosures[e].URL
        /\ encs[r].ItemId = Resolved(its, v)

\* C11 as stated: when an ingested item has an enclosure whose length is not
\* a base-10 unsigned integer, updateItems returns an error, the owning Item
\* is persisted and zero Enclosures are persisted for that Item.
C11_ZeroEnclosures ==
    (call.state = "done" /\ FailItem(call.batch) # 0) =>
        LET v == call.batch[FailItem(call.batch)]
        IN  /\ call.err
            /\ Resolved(items, v) # 0
            /\ EnclosuresOf(enclosures, Resolved(items, v)) = {}

\* C11, amended: when an ingested item has an enclosure whose length is not
\* a base-10 unsigned integer, updateItems returns an error, the owning Item
\* (the one the title resolves to) is persisted, and the call stores for
\* that Item only enclosures listed before the failing one (or enclosures of
\* earlier items of the batch with the same owning Item): the failing
\* enclosure is not stored, and when it is the first of a new Item, the Item
\* has zero Enclosures.
C11_FailingEnclosureNotStored ==
    [][ FailingCall =>
          LET b == call.batch
              k == FailItem(b)
              f == FailEnclosure(b)
              v == b[k]
              id == Resolved(items', v)
              earlier == {j \in 1..(k - 1) : Resolved(items', b[j]) = id}
          IN  /\ call'.err
              /\ id # 0
              /\ v.Title # "" => items'[id].Title = v.Title
              /\ \A r \in DOMAIN enclosures' \ DOMAIN enclosures :
                    enclosures'[r].ItemId = id =>
                        \/ RowFrom(enclosures', items', r, v, f)
                        \/ \E j \in earlier :
                              RowFrom(enclosures', items', r, b[j],
                                      Len(b[j].Enclosures) + 1)
              /\ (f = 1 /\ id \notin DOMAIN items /\ earlier = {})
                    => EnclosuresOf(enclosures', id) = {}
      ]_vars

\* An item's second enclosure failed to parse; its first one is stored.
C11_Witness ==
    /\ call.state = "done"
    /\ call.err
    /\ FailItem(call.batch) # 0
    /\ FailEnclosure(call.batch) = 2
    /\ Stored(enclosures, items, call.batch[FailItem(call.batch)], 1)

\* C12: an Enclosure whose length fails to parse does not block its siblings
\* or the owning Item: the owning Item is persisted and every enclosure of
\* the same item that does parse, listed before or after the failing one,
\* is persisted.
C12_SiblingsPersisted ==
    (call.state = "done" /\ FailItem(call.batch) # 0) =>
        LET v == call.batch[FailItem(call.batch)]
        IN  /\ Resolved(items, v) # 0
            /\ \A e \in DOMAIN v.Enclosures \ BadEnclosures(v) :
                  Stored(enclosures, items, v, e)

\* C13: fail-fast within a batch.  When updateItems fails on the k-th item,
\* it returns an error; items 1..k are persisted (each title resolves to an
\* Item), with every enclosure of items 1..k-1 and the enclosures of item k
\* that precede the failing one; every Item and Enclosure the call creates
\* comes from those; and what was stored before is unchanged.
C13_FailFast ==
    [][ FailingCall =>
          LET b == call.batch
              k == FailItem(b)
              f == FailEnclosure(b)
              Upto(j) == IF j = k THEN f ELSE Len(b[j].Enclosures) + 1
          IN  /\ call'.err
              /\ \A j \in 1..k :
                    /\ Resolved(items', b[j]) # 0
                    /\ b[j].Title # ""
                          => items'[Resolved(items', b[j])].Title = b[j].Title
                    /\ \A e \in 1..(Upto(j) - 1) :
                          Stored(enclosures', items', b[j], e)
              /\ \A i \in DOMAIN items' \ DOMAIN items :
                    \E j \in 1..k : items'[i].Title = b[j].Title
              /\ \A r \in DOMAIN enclosures' \ DOMAIN enclosures :
                    \E j \in 1..k :
                        RowFrom(enclosures', items', r, b[j], Upto(j))
              /\ \A i \in DOMAIN items : items'[i] = items[i]
              /\ \A r \in DOMAIN enclosures : enclosures'[r] = enclosures[r]
      ]_vars

\* The first of two items failed at its second enclosure: its first
\* enclosure is stored and no Item of the second item's title exists.
C13_Witness ==
    /\ call.state = "done"
    /\ Len(call.batch) = 2
    /\ FailItem(call.batch) = 1
    /\ FailEnclosure(call.batch) = 2
    /\ Stored(enclosures, items, call.batch[1], 1)
    /\ call.batch[2].Title # ""
    /\ \A i \in DOMAIN items : items[i].Title # call.batch[2].Title


(***************************************************************************)
(* Properties of checkFeeds and fullFeed (SpecSync).                       *)
(***************************************************************************)
\* The fetch for a Feed failed, or the ingestion of what it returned did.
FeedFailed(d) == ~d.ok \/ FailItem(Take(d.Items, CheckLimit)) # 0

\* The tables are as they were before the step.
StoreUnchanged == items' = items /\ enclosures' = enclosures

\* C15: checkFeeds continues on error.  Every persisted Feed is attempted
\* exactly once per call, in order, whatever failed before it; the call
\* returns an error iff at least one Feed failed to fetch or to ingest; no
\* stored Item is lost or changed, every title of a Feed that succeeded
\* resolves to a stored Item afterwards, and no Item is created for a Feed
\* whose fetch failed.
C15_CheckFeedsContinues ==
    [][ call'.state = "checkFeeds" =>
          LET fetch == call'.fetch
          IN  /\ call'.tried = [i \in 1..Len(feeds) |-> i]
              /\ call'.err <=> \E f \in DOMAIN feeds : FeedFailed(fetch[f])
              /\ \A i \in DOMAIN items : items'[i] = items[i]
              /\ \A f \in DOMAIN feeds :
                    ~FeedFailed(fetch[f]) =>
                        \A j \in DOMAIN fetch[f].Items :
                            Resolved(items', fetch[f].Items[j]) # 0
              /\ \A i \in DOMAIN items' \ DOMAIN items :
                    fetch[items'[i].FeedId].ok
      ]_vars

\* The first Feed's fetch failed, the call went on to the second Feed,
\* stored its Item and returned an error.
C15_Witness ==
    /\ call.state = "checkFeeds"
    /\ ~call.fetch[1].ok
    /\ call.fetch[2].ok
    /\ call.err
    /\ call.tried = <<1, 2>>
    /\ \E i \in DOMAIN items :
          /\ items[i].FeedId = 2
          /\ \E j \in DOMAIN call.fetch[2].Items :
                call.fetch[2].Items[j].Title = items[i].Title

\* C16: fullFeed's terminal errors.  When no Feed has the given title
\* fullFeed returns an error without asking the feed source; when the fetch
\* fails it returns an error; in both cases no Item or Enclosure is created
\* or changed.
C16_FullFeedTerminalErrors ==
    [][ call'.state = "fullFeed" =>
          LET known == \E f \in DOMAIN feeds :
                          feeds[f].Title = call'.feedTitle
          IN  /\ ~known => call'.err /\ ~call'.fetched /\ StoreUnchanged
              /\ (known /\ ~call'.fetch.ok)
                    => call'.err /\ call'.fetched /\ StoreUnchanged
      ]_vars

\* fullFeed was called with a title no Feed has, on a store with Items.
C16_Witness ==
    /\ call.state = "fullFeed"
    /\ \A f \in DOMAIN feeds : feeds[f].Title # call.feedTitle
    /\ call.fetch.ok /\ call.fetch.Items # <<>>
    /\ call.err
    /\ ~call.fetched
    /\ items # <<>>


(***************************************************************************)
(* Properties of the batch bound (SpecLimit).                              *)
(***************************************************************************)
\* The bound of the command of the call.
LimitOf(op) == IF op = "checkFeeds" THEN CheckLimit ELSE FullLimit

SmallerOf(a, b) == IF a < b THEN a ELSE b

HasTitle(its, t) == \E i \in DOMAIN its : its[i].Title = t

AddFeedStep == last'.op = "addFeed" /\ call'.state = "addFeed"

UrlStored(fs, url) == \E f \in DOMAIN fs : fs[f].Feed = url

TitleStored(fs, title) == \E f \in DOMAIN fs : fs[f].Title = title

\* C17: register idempotence.  When addFeed is called a second time with
\* the URL of the addFeed call before it, both fetches succeeding and
\* whatever title the second document carries, the second call returns the
\* Feed identity the first returned and leaves the feeds table as it was.
C17_RegisterIdempotence ==
    [][ ( /\ AddFeedStep
          /\ call.state = "addFeed"
          /\ call.ok /\ call'.ok
          /\ call'.feedURL = call.feedURL )
        => ( call'.id = call.id /\ feeds' = feeds )
      ]_vars

\* C18: title-priority reconciliation.  An addFeed call with a URL no Feed
\* stores, whose document carries a non-empty title that a Feed stores,
\* returns a Feed of that title and leaves the feeds table as it was: no
\* Feed is created and no stored URL changes.
C18_TitlePriority ==
    [][ ( /\ AddFeedStep
          /\ call'.ok
          /\ ~UrlStored(feeds, call'.feedURL)
          /\ call'.title # ""
          /\ TitleStored(feeds, call'.title) )
        => ( /\ call'.id \in DOMAIN feeds
             /\ feeds[call'.id].Title = call'.title
             /\ ~call'.err
             /\ feeds' = feeds )
      ]_vars

\* The last call was an addFeed with a new URL that was resolved by title:
\* the Feed returned stores another URL and the URL of the call is stored
\* nowhere.
C18_Witness ==
    /\ last.op = "addFeed"
    /\ call.state = "addFeed"
    /\ call.ok
    /\ call.title # ""
    /\ call.id \in DOMAIN feeds
    /\ feeds[call.id].Title = call.title
    /\ feeds[call.id].Feed # call.feedURL
    /\ ~UrlStored(feeds, call.feedURL)

\* C19: Feed uniqueness.  In every state reached from the empty store by
\* addFeed, reInitFeeds, checkFeeds, fullFeed and publish, no two Feeds
\* store the same source URL and no two Feeds store the same non-empty
\* title.
C19_FeedUniqueness ==
    \A f, g \in DOMAIN feeds :
        f # g => /\ feeds[f].Feed # feeds[g].Feed
                 /\ feeds[f].Title = "" \/ feeds[f].Title # feeds[g].Title

\* Two Feeds are stored, an addFeed call was resolved to the first of them
\* without creating a Feed, and an episode has been ingested and published.
C19_Witness ==
    /\ Len(feeds) = 2
    /\ call.state = "addFeed" /\ call.ok /\ call.id = 1
    /\ \E i \in DOMAIN items : items[i].TgPublished = 1

\* C20: register on fetch failure.  When the fetch of an addFeed call fails
\* the call returns an error and no table changes: no Feed and no Image is
\* created.
C20_FetchFailure ==
    [][ ( AddFeedStep /\ ~call'.ok )
        => ( /\ call'.err
             /\ feeds' = feeds
             /\ images' = images
             /\ items' = items
             /\ enclosures' = enclosures )
      ]_vars

\* An addFeed call failed to fetch a URL no Feed stores, on a store that
\* holds a Feed and an Image.
C20_Witness ==
    /\ last.op = "addFeed"
    /\ call.state = "addFeed"
    /\ ~call.ok /\ call.err
    /\ feeds # <<>>
    /\ images # <<>>
    /\ ~UrlStored(feeds, call.feedURL)


(***************************************************************************)
(* Properties of the images table (SpecRegister).                          *)
(***************************************************************************)
\* The step is a reInitFeeds call; call' holds what every Feed's fetch
\* returned and whether the call returned an error.
ReInitStep == last'.op = "reInitFeeds" /\ call'.state = "reInitFeeds"

\* The Image rows not deleted that reference Feed f.
ImagesOf(imgs, f) ==
    {i \in DOMAIN imgs : ~imgs[i].Deleted /\ imgs[i].FeedId = f}

\* C21: register image reconciliation.  After every successful addFeed
\* whose document carries image data, whether the Feed was found by URL,
\* found by title or created, an Image of the Feed returned exists; when
\* the document carries no image the call succeeds and the images table is
\* as it was.
C21_RegisterImage ==
    [][ ( AddFeedStep /\ call'.ok )
        => ( /\ ~call'.err
             /\ call'.image # <<>> => ImagesOf(images', call'.id) # {}
             /\ call'.image = <<>> => images' = images )
      ]_vars

\* C22: resync image reconciliation.  After reInitFeeds, for every Feed
\* whose fetch succeeded: when the document has an image, the Feed has an
\* Image, every Image of the Feed carries the document's URL and title, and
\* the Image the Feed had before keeps its identity; when the document has
\* no image, no Image references the Feed.
C22_ResyncImage ==
    [][ ReInitStep =>
          \A f \in DOMAIN feeds :
              call'.fetch[f].ok =>
                  IF call'.fetch[f].Image # <<>>
                  THEN /\ ImagesOf(images', f) # {}
                       /\ \A i \in ImagesOf(images', f) :
                             /\ images'[i].Url = call'.fetch[f].Image[1].URL
                             /\ images'[i].Title = call'.fetch[f].Image[1].Title
                       /\ ImagesOf(images, f) \subseteq ImagesOf(images', f)
                  ELSE ImagesOf(images', f) = {}
      ]_vars

\* C23: Image is one-to-one with Feed.  In every state reached by addFeed
\* and reInitFeeds calls, at most one Image not deleted references any
\* Feed.
C23_OneImagePerFeed ==
    \A f \in DOMAIN feeds : Cardinality(ImagesOf(images, f)) <= 1

\* C24: resync partial success.  A reInitFeeds call returns an error
\* exactly when some Feed's fetch failed (never on an empty store); the
\* Images of a Feed whose fetch failed are as they were; every other Feed
\* is processed: with an image that has a URL it has an Image of that URL
\* and title afterwards, otherwise the first Image it had is deleted.
C24_ResyncPartialSuccess ==
    [][ ReInitStep =>
          /\ call'.err <=> \E f \in DOMAIN feeds : ~call'.fetch[f].ok
          /\ \A f \in DOMAIN feeds :
                LET d == call'.fetch[f]
                    before == ImagesOf(images, f)
                    after == ImagesOf(images', f)
                IN  IF ~d.ok
                    THEN /\ after = before
                         /\ \A i \in before : images'[i] = images[i]
                    ELSE IF d.Image # <<>> /\ d.Image[1].URL # ""
                    THEN \E i \in after :
                            /\ images'[i].Url = d.Image[1].URL
                            /\ images'[i].Title = d.Image[1].Title
                    ELSE before # {} => images'[Min(before)].Deleted
      ]_vars

\* A reInitFeeds call on two Feeds: the fetch of the first failed and its
\* Image is still stored, the second had no Image and has one now, and the
\* call returned the error.
C24_Witness ==
    /\ last.op = "reInitFeeds"
    /\ call.state = "reInitFeeds"
    /\ call.err
    /\ Len(feeds) = 2
    /\ ~call.fetch[1].ok
    /\ call.fetch[2].ok
    /\ call.fetch[2].Image # <<>>
    /\ ImagesOf(images, 1) # {}
    /\ \E i \in ImagesOf(images, 2) :
          images[i].Url = call.fetch[2].Image[1].URL /\ i > Min(ImagesOf(images, 1))


(***************************************************************************)
(* Properties of selection (SpecSelect).                                   *)
(***************************************************************************)
\* The Items of the feed of the call whose publication state is exactly 0.
Selectable ==
    {i \in DOMAIN items :
        items[i].FeedId = call.feed /\ items[i].TgPublished = 0}

\* C25: selection order.  getFirstUnpublishedItem returns an Item of the
\* feed in state 0 with the smallest publish timestamp among them, and
\* NotFound when there is none; getUnpublishedItems returns exactly those
\* Items, each once, ascending by publish timestamp.
C25_SelectionOrder ==
    /\ call.state = "first" =>
          IF Selectable = {} THEN call.item = 0
          ELSE /\ call.item \in Selectable
               /\ \A j \in Selectable :
                     items[call.item].PublishedParsed
                         <= items[j].PublishedParsed
    /\ call.state = "all" =>
          /\ {call.rows[k] : k \in DOMAIN call.rows} = Selectable
          /\ Len(call.rows) = Cardinality(Selectable)
          /\ \A k \in 1..(Len(call.rows) - 1) :
                items[call.rows[k]].PublishedParsed
                    <= items[call.rows[k + 1]].PublishedParsed

\* Three unpublished Items of the feed with distinct timestamps, stored
\* newest first, are returned oldest first.
C25_Witness ==
    /\ call.state = "all"
    /\ call.rows = <<3, 2, 1>>
    /\ items[3].PublishedParsed < items[2].PublishedParsed
    /\ items[2].PublishedParsed < items[1].PublishedParsed


(***************************************************************************)
(* Properties of the publish entry points (Spec).                          *)
(***************************************************************************)
\* C26: the publish-ready flag gates the pipeline.  In publish,
\* publishOneItem and publishOnebyFeedId, every Item that is downloaded,
\* sent or marked published belongs to a Feed whose publish-ready flag is
\* set.
C26_ReadyFlagGates ==
    [][ PipelineStep =>
          /\ items[last'.item].FeedId \in DOMAIN feeds
          /\ feeds[items[last'.item].FeedId].PublishReady
      ]_vars

SingleModes == {"publishOneItem", "publishOnebyFeedId"}

\* The feeds a publishOneItem cycle has still to visit.
FeedsAhead(r) == {r.feedsQ[k] : k \in DOMAIN r.feedsQ}

\* C27: single-item mode.  A publishOneItem cycle visits every ready Feed
\* once: the feeds ahead are distinct and never hold the feed in hand; for
\* the feed it visits it selects one Item, the oldest unpublished of that
\* feed; the send step is for the Item selected and no other Item changes
\* state.  A publishOnebyFeedId call starts from rest, selects one Item
\* and returns after its download or send step.
C27_SingleItemMode ==
    [][ /\ run.mode = "publishOneItem" =>
              /\ \A k, l \in DOMAIN run.feedsQ :
                    k # l => run.feedsQ[k] # run.feedsQ[l]
              /\ run.file # "" => run.feed \notin FeedsAhead(run)
        /\ (last'.op = "download" /\ last'.mode = "publishOneItem") =>
              /\ run.mode = "publishOneItem"
              /\ items[last'.item].FeedId = Head(run.feedsQ)
              /\ last'.item \in UnpublishedOf(items, Head(run.feedsQ))
              /\ \A j \in UnpublishedOf(items, Head(run.feedsQ)) :
                    items[last'.item].PublishedParsed
                        <= items[j].PublishedParsed
              /\ Head(run.feedsQ) \notin FeedsAhead(run')
        /\ (last'.op = "download" /\ last'.mode = "publishOnebyFeedId") =>
              /\ run.mode = "idle"
              /\ run'.file = "" => run'.mode = "idle"
        /\ (last'.op = "send" /\ last'.mode \in SingleModes) =>
              /\ last'.item = run.item
              /\ items[run.item].FeedId = run.feed
              /\ last'.mode = "publishOnebyFeedId" => run'.mode = "idle"
        /\ (PipelineStep /\ last'.mode \in SingleModes) =>
              \A i \in DOMAIN items : Marks(i) => i = last'.item
      ]_vars

\* A publishOneItem cycle has ended: it delivered the older of the two
\* unpublished Items of a feed and left the newer one unpublished.
C27_Witness ==
    /\ run.mode = "idle"
    /\ last.op = "send" /\ last.mode = "publishOneItem"
    /\ last.outcome = "sent"
    /\ \E j \in DOMAIN items :
          /\ j # last.item
          /\ items[j].FeedId = items[last.item].FeedId
          /\ items[j].TgPublished = 0
          /\ items[last.item].PublishedParsed < items[j].PublishedParsed
          /\ CopiesIn(j, sent) = 0


(***************************************************************************)
(* Properties of the caption (SpecCaption).                                *)
(***************************************************************************)
\* The number of characters of a text: one per first byte.
CharCount(t) == Cardinality({i \in DOMAIN t : t[i].p = 1})

\* The first n characters of a text of more than n characters.
FirstChars(t, n) ==
    LET j == CHOOSE k \in n..Len(t) :
                 /\ t[k + 1].p = 1
                 /\ Cardinality({i \in 1..k : t[i].p = 1}) = n
    IN  SubSeq(t, 1, j)

\* The caption without the title part and without the extra-link part.
SegmentOf(c) ==
    SubSeq(c.caption, 6,
           Len(c.caption)
               - (IF c.extraLinkEnabled THEN 2 + Len(ExtraLinkText) ELSE 0))

\* C28: caption subtitle truncation.  For an Item of a feed other than 34
\* the subtitle segment of the caption is the subtitle when the subtitle
\* has at most 800 characters, and its first 800 characters followed by
\* "..." when it has more: never more than 803 characters.
C28_SubtitleTruncation ==
    (call.state = "done" /\ call.feedId # OmitSubtitleFeed) =>
        LET subtitle == SubtitleOf(call.ascii, call.wide)
        IN  /\ CharCount(subtitle) <= SubtitleLimit =>
                  SegmentOf(call) = subtitle
            /\ CharCount(subtitle) > SubtitleLimit =>
                  SegmentOf(call) = FirstChars(subtitle, SubtitleLimit) \o Ellipsis
            /\ CharCount(SegmentOf(call)) <= SubtitleLimit + 3

\* C29: caption sentinel and extra link.  The caption starts with the title
\* between two "*" followed by a blank line; for an Item of feed 34 nothing
\* of the subtitle follows, whatever its length; with the extra-link
\* feature enabled the caption ends with a blank line and the link (also
\* for feed 34), with it disabled nothing follows the subtitle segment.
C29_SentinelAndExtraLink ==
    call.state = "done" =>
        LET c == call.caption
            title == Ascii(call.title)
            tail == NewLine \o NewLine \o ExtraLinkText
            head == Ascii("*") \o title \o Ascii("*") \o NewLine \o NewLine
        IN  /\ SubSeq(c, 1, Len(head)) = head
            /\ call.feedId = OmitSubtitleFeed => SegmentOf(call) = <<>>
            /\ call.extraLinkEnabled =>
                  SubSeq(c, Len(c) - Len(tail) + 1, Len(c)) = tail
            /\ ~call.extraLinkEnabled =>
                  /\ c = head \o SegmentOf(call)
                  /\ \A i \in DOMAIN c : c[i].c # "h"
            /\ Len(c) = Len(head) + Len(SegmentOf(call))
                            + (IF call.extraLinkEnabled THEN Len(tail) ELSE 0)

\* An Item of feed 34 with a subtitle beyond the limit and the extra link
\* enabled: the caption is the title part and the link part.
C29_Witness ==
    /\ call.state = "done"
    /\ call.feedId = OmitSubtitleFeed
    /\ call.ascii > SubtitleLimit
    /\ call.extraLinkEnabled
    /\ Len(call.caption) = 5 + 2 + Len(ExtraLinkText)


(***************************************************************************)
(* Properties of downloadFile (SpecDownload).                              *)
(***************************************************************************)
\* C30: download error leaves nothing behind.  Whenever downloadFile
\* returns an error (request, status, temporary file creation, copy, close
\* or rename) it returns the empty path and the directory holds the files
\* it held before the call: the temporary file of the call is not among
\* them.  It returns an error exactly when one of these steps fails.
C30_DownloadErrorLeavesNothing ==
    [][ (call.state = "ready" /\ call'.state = "done") =>
          /\ call'.err <=> call.fault # "none"
          /\ call'.err =>
                /\ call'.path = ""
                /\ files' = files
                /\ call'.tmp \notin files'
      ]_vars

\* The rename of a call failed after its temporary file was written: the
\* files of earlier runs are there, the temporary file is not.
C30_Witness ==
    /\ call.state = "done"
    /\ call.fault = "rename"
    /\ call.err /\ call.path = ""
    /\ call.tmp = "echopan_2"
    /\ files = {"echopan_1", FileName(call.url)}

(***************************************************************************)
(* Properties of the stored file's name (SpecFileName).                    *)
(***************************************************************************)
\* The last segment of the resolved path, as the call was put together:
\* its stem and its extension.  A path that ends in a slash names its
\* directory; "" and "/" have no segment.
HasSegment(c) ==
    ~c.empty /\ (c.dir # Slash \/ c.ascii + c.wide > 0 \/ c.ext # <<>>)
SegmentStem(c) ==
    IF c.ascii + c.wide = 0 /\ c.ext = <<>>
    THEN (IF c.dir = Slash THEN <<>> ELSE Bytes(<<"p">>))
    ELSE AsciiRun(c.ascii) \o WideRun(c.wide)
            \o (IF c.ext = TarGzExt THEN Bytes(<<".", "t", "a", "r">>)
                ELSE <<>>)
SegmentExt(c) ==
    IF c.ext = TarGzExt THEN Bytes(<<".", "g", "z">>) ELSE c.ext
SourceIsMp3(c) ==
    \/ c.source = "mp3"
    \/ c.source = "same" /\ ~c.empty /\ c.ext = Mp3Ext
StoredExt(c) == Ext(c.fileName)
StoredStem(c) == TrimSuffix(c.fileName, StoredExt(c))
ShortOf(a, b) == IF a <= b THEN a ELSE b

\* C31 as stated: after every successful download the stored stem has
\* length min(len(stem of the last path segment), 100) and is a prefix of
\* that stem; the extension is ".mp3" when the source URL ends in ".mp3",
\* otherwise the extension of the resolved path when it has one.
C31_FilenameDerivation_AsStated ==
    call.state = "done" =>
        /\ Len(StoredStem(call)) = ShortOf(Len(SegmentStem(call)), NameLimit)
        /\ StoredStem(call)
              = SubSeq(SegmentStem(call), 1, Len(StoredStem(call)))
        /\ SourceIsMp3(call) => StoredExt(call) = Mp3Ext
        /\ (~SourceIsMp3(call) /\ SegmentExt(call) # <<>>)
              => StoredExt(call) = SegmentExt(call)

\* C31, amended: when the resolved path has a last segment, the stored
\* stem has length min(len(stem of the segment), 100) (in bytes) and is a
\* prefix of that stem, and the extension is ".mp3" when the source URL
\* ends in ".mp3", otherwise the segment's own extension when it has one,
\* otherwise ".mp3"; when the resolved path is empty or "/", the file is
\* named "downloaded_file.mp3".
C31_FilenameDerivation ==
    call.state = "done" =>
        /\ HasSegment(call) =>
              /\ Len(StoredStem(call))
                    = ShortOf(Len(SegmentStem(call)), NameLimit)
              /\ StoredStem(call)
                    = SubSeq(SegmentStem(call), 1, Len(StoredStem(call)))
              /\ SourceIsMp3(call) => StoredExt(call) = Mp3Ext
              /\ (~SourceIsMp3(call) /\ SegmentExt(call) # <<>>)
                    => StoredExt(call) = SegmentExt(call)
              /\ (~SourceIsMp3(call) /\ SegmentExt(call) = <<>>)
                    => StoredExt(call) = Mp3Ext
        /\ ~HasSegment(call) => call.fileName = FallbackName \o Mp3Ext

\* A stem of 150 bytes behind ".txt", reached through a redirect from a
\* URL that does not end in ".mp3": 100 bytes and ".txt" are stored.
C31_Witness ==
    /\ call.state = "done"
    /\ call.ascii = NameLimit + 50 /\ call.wide = 0
    /\ call.ext = TxtExt /\ call.source = "other"
    /\ call.fileName = AsciiRun(NameLimit) \o TxtExt


(***************************************************************************)
(* Properties of the Enclosure table (SpecBatch).                          *)
(***************************************************************************)
\* C32: Enclosure dedup by URL.  After an updateItems call no two stored
\* Enclosures have the same URL, and the Enclosures stored before the call
\* are as they were (length and owning Item): an enclosure whose URL is
\* stored creates no row.
C32_EnclosureDedupByUrl ==
    [][ (call.state = "ready" /\ call'.state = "done") =>
          /\ \A i, j \in DOMAIN enclosures' :
                enclosures'[i].Url = enclosures'[j].Url => i = j
          /\ SubSeq(enclosures', 1, Len(enclosures)) = enclosures
          /\ \A j \in DOMAIN enclosures' :
                j > Len(enclosures) =>
                    \A i \in DOMAIN enclosures :
                        enclosures[i].Url # enclosures'[j].Url
      ]_vars


(***************************************************************************)
(* Properties of repeated ingestion (SpecRepeat).                          *)
(***************************************************************************)
\* C33: ingest idempotence.  An updateItems call given the feed and the
\* batch of the call right before it leaves Items (publication states
\* included) and Enclosures as that call left them and returns what it
\* returned; so does a checkFeeds call whose sources return the documents
\* they returned to the checkFeeds call right before it.
C33_IngestIdempotence ==
    [][ (call.runs >= 1 /\ call'.runs = call.runs + 1) =>
          /\ items' = items
          /\ enclosures' = enclosures
          /\ call'.err = call.err
      ]_vars

\* A batch whose second item fails was ingested twice in a row on empty
\* tables: the Item and the Enclosure of its first item are stored once.
C33_Witness ==
    /\ call.state = "updateItems" /\ call.runs = 2 /\ call.err
    /\ Len(call.batch) = 2
    /\ Len(items) = 2
    /\ Len(enclosures) = 1


(***************************************************************************)
(* Properties of DbConnect (SpecConnect).                                  *)
(***************************************************************************)
\* C34: DbConnect returns no connection for parameters with an empty file
\* path: called with DbParams that set no Type and an empty File it panics
\* with "database file path is required"; with Type postgres and an empty
\* DSN it panics with "DSN is required for postgres".
C34_EmptyFilePanics ==
    (call.state = "done" /\ call.via = "literal") =>
        /\ (call.Type = "" /\ call.File = "") =>
              /\ ~call.db
              /\ call.panic = <<"database file path is required">>
        /\ (call.Type = DbTypePostgres /\ call.DSN = "") =>
              /\ ~call.db
              /\ call.panic = <<"DSN is required for postgres">>


(***************************************************************************)
(* Properties of service() (SpecService).                                  *)
(***************************************************************************)
\* C35: progress in service mode.  If the Feed of the target stays
\* publish-ready and no configuration error occurs, the target is
\* eventually marked published, whatever the Notifier answers to the sends
\* of the other Items: no Item blocks another for ever.
C35_ServiceProgress ==
    ( /\ [](feeds[items[call.target].FeedId].PublishReady)
      /\ [](last.outcome # "config") )
        => <>(items[call.target].TgPublished = 1)

\* The later Item of Feed 1 was sent and marked published while the
\* earlier one, refused with a retryable error, is still unpublished.
C35_Witness ==
    /\ call.target = 2
    /\ items[2].TgPublished = 1
    /\ items[1].TgPublished = 0
    /\ last.op = "send" /\ last.item = 2 /\ last.outcome = "sent"


(***************************************************************************)
(* Properties of one publish cycle (Spec).                                 *)
(***************************************************************************)
RangeOf(q) == {q[k] : k \in DOMAIN q}

\* The Items a publish cycle at position r may still download: those of
\* the snapshot in hand and those of the Feeds still to come.
Remaining(r, its) ==
    RangeOf(r.itemsQ)
        \cup {i \in DOMAIN its : its[i].FeedId \in RangeOf(r.feedsQ)}

\* What is left of a cycle: the Feeds to come (each with a snapshot of at
\* most every Item), the snapshot in hand, the file to send.
CycleSize(r, its) ==
    Len(r.feedsQ) * (2 * Len(its) + 1) + 2 * Len(r.itemsQ)
        + (IF r.file # "" THEN 1 ELSE 0)

\* C36: one publish cycle terminates and attempts each Item at most once.
\* Every step of publish() makes what is left of the cycle smaller, and
\* one more step can be taken until the cycle returns; an Item it
\* downloads was unpublished and among the Items still to attempt, and is
\* not among them afterwards, where no Item ever comes back, also after a
\* retryable error; a send is of the Item downloaded in the step before.
C36_CycleAttemptsOnce ==
    [][ run.mode = "publish" =>
          /\ ENABLED (publishNextFeed \/ publishDownload \/ publishSend)
          /\ run'.mode \in {"publish", "idle"}
          /\ CycleSize(run', items') < CycleSize(run, items)
          /\ Remaining(run', items') \subseteq Remaining(run, items)
          /\ last'.op = "download" =>
                /\ items[last'.item].TgPublished = 0
                /\ last'.item \in Remaining(run, items)
                /\ last'.item \notin Remaining(run', items')
          /\ last'.op = "send" =>
                /\ last.op = "download" /\ last.mode = "publish"
                /\ last.outcome = "downloaded"
                /\ last.item = last'.item
      ]_vars

\* The Notifier refused an Item with a retryable error; the cycle goes on
\* with the rest of the snapshot and the Item, still unpublished, is not
\* among the Items it will attempt.
C36_Witness ==
    /\ run.mode = "publish"
    /\ last.op = "send" /\ last.outcome = "retryable"
    /\ run.itemsQ # <<>>
    /\ items[last.item].TgPublished = 0
    /\ last.item \notin Remaining(run, items)


(***************************************************************************)
(* Properties of the delivery order in single-item mode (Spec).            *)
(***************************************************************************)
\* No unpublished Item of the Feed of Item i is dated before i.
OldestOfFeed(its, i) ==
    \A j \in UnpublishedOf(its, its[i].FeedId) :
        its[i].PublishedParsed <= its[j].PublishedParsed

\* C37: per-feed delivery order in single-item mode.  publishOneItem and
\* publishOnebyFeedId select an unpublished Item that no unpublished Item
\* of its Feed is dated before; the Item they send is the one selected in
\* the step before, still the oldest, and the Item they mark published is
\* the one selected.  So while the oldest unpublished Item of a Feed is
\* refused with a retryable error, no newer Item of the Feed is sent.
C37_SingleModeOrder ==
    [][ /\ (last'.op = "download" /\ last'.mode \in SingleModes) =>
              /\ items[last'.item].TgPublished = 0
              /\ OldestOfFeed(items, last'.item)
        /\ (last'.op = "send" /\ last'.mode \in SingleModes) =>
              /\ last.op = "download" /\ last.mode = last'.mode
              /\ last.item = last'.item
              /\ items[last'.item].TgPublished = 0
              /\ OldestOfFeed(items, last'.item)
              /\ last'.outcome = "retryable" =>
                    /\ items'[last'.item].TgPublished = 0
                    /\ OldestOfFeed(items', last'.item)
        /\ (PipelineStep /\ last'.mode \in SingleModes) =>
              \A i \in DOMAIN items :
                  Marks(i) => i = last'.item /\ OldestOfFeed(items, i)
      ]_vars

\* publishOnebyFeedId was refused the older of two unpublished Items of a
\* Feed with a retryable error: both stay unpublished, the newer one has
\* never been sent.
C37_Witness ==
    /\ last.op = "send" /\ last.mode = "publishOnebyFeedId"
    /\ last.outcome = "retryable"
    /\ items[last.item].TgPublished = 0
    /\ \E j \in DOMAIN items :
          /\ items[j].FeedId = items[last.item].FeedId
          /\ items[j].TgPublished = 0
          /\ items[last.item].PublishedParsed < items[j].PublishedParsed
          /\ CopiesIn(j, sent) = 0


(***************************************************************************)
(* Frame of the commands (Spec).                                           *)
(***************************************************************************)
\* The step belongs to publish, publishOneItem or publishOnebyFeedId.
PublishEntryStep ==
    run.mode # "idle" \/ run'.mode # "idle" \/ PipelineStep

\* C38: frame of the components.  A step of a publish entry point leaves
\* Feeds, Enclosures and Images as they are and changes no Item, or sets
\* the publication state of the Item it processes from 0 to 1 and nothing
\* else.  Every other step (addFeed, reInitFeeds, checkFeeds, fullFeed, the
\* operator's flag) calls no Notifier and keeps every Item that exists and
\* its publication state.
C38_Frame ==
    [][ /\ PublishEntryStep =>
              /\ feeds' = feeds
              /\ enclosures' = enclosures
              /\ images' = images
              /\ \/ items' = items
                 \/ /\ PipelineStep
                    /\ last'.item \in DOMAIN items
                    /\ items[last'.item].TgPublished = 0
                    /\ items' = [items EXCEPT ![last'.item].TgPublished = 1]
        /\ ~PublishEntryStep =>
              /\ sent' = sent
              /\ last'.op # "send"
              /\ \A i \in DOMAIN items :
                    /\ i \in DOMAIN items'
                    /\ items'[i].TgPublished = items[i].TgPublished
      ]_vars

\* A publish cycle delivered one of two unpublished Items of a Feed, and a
\* checkFeeds call that found both titles has run since: the one is still
\* published, the other still unpublished and never sent.
C38_Witness ==
    /\ last.op = "updateItems" /\ last.outcome = "existing"
    /\ items[last.item].TgPublished = 1
    /\ \E i, j \in DOMAIN items :
          /\ i # j
          /\ items[i].FeedId = items[j].FeedId
          /\ items[i].TgPublished = 1 /\ CopiesIn(i, sent) = 1
          /\ items[j].TgPublished = 0 /\ CopiesIn(j, sent) = 0


(***************************************************************************)
(* Properties of the title lookup across Feeds (SpecBatch).                *)
(***************************************************************************)
\* The Items of another Feed than the call's that have the title of the
\* k-th item of the batch.
TitleElsewhere(its, c, k) ==
    {e \in DOMAIN its : /\ its[e].Title = c.batch[k].Title
                        /\ its[e].FeedId # c.feed}

\* No Enclosure is stored under the URL.
NewUrl(encs, url) == \A j \in DOMAIN encs : encs[j].Url # url

\* The loop of the call gets as far as the n-th enclosure of the k-th item
\* and its length parses: no length before it fails.
ReachedAt(c, k, n) ==
    /\ \A k2 \in 1..(k - 1) :
          \A n2 \in DOMAIN c.batch[k2].Enclosures :
              ParseUint(c.batch[k2].Enclosures[n2].Length).ok
    /\ \A n2 \in 1..n : ParseUint(c.batch[k].Enclosures[n2].Length).ok

\* C39 as stated: when updateItems runs for feed B with an item whose
\* title an Item of another feed A has, no Item is created for B, the
\* existing Item keeps its feed, and every enclosure of the incoming item
\* with a new URL is attached to the existing Item; every Item belongs to
\* one Feed.
C39_StoreWideTitleDedup_AsStated ==
    [][ (call.state = "ready" /\ call'.state = "done") =>
          \A k \in DOMAIN call.batch :
            \A e \in TitleElsewhere(items, call, k) :
              /\ \A i \in DOMAIN items' :
                    items'[i].Title = call.batch[k].Title => i = e
              /\ items'[e] = items[e]
              /\ \A n \in DOMAIN call.batch[k].Enclosures :
                    NewUrl(enclosures, call.batch[k].Enclosures[n].URL) =>
                        \E j \in DOMAIN enclosures' :
                            /\ enclosures'[j].Url
                                  = call.batch[k].Enclosures[n].URL
                            /\ enclosures'[j].ItemId = e
              /\ \A i \in DOMAIN items' : items'[i].FeedId \in DOMAIN feeds
      ]_vars

\* C39, amended: when updateItems runs for feed B with an item whose title
\* an Item of another feed A has, no Item is created for B, the existing
\* Item keeps its feed, and every enclosure of the incoming item with a
\* new URL that the call reaches with a length that parses (no enclosure
\* length before it in the batch fails to parse) is attached to the
\* existing Item; every Item belongs to one Feed.
C39_StoreWideTitleDedup ==
    [][ (call.state = "ready" /\ call'.state = "done") =>
          \A k \in DOMAIN call.batch :
            \A e \in TitleElsewhere(items, call, k) :
              /\ \A i \in DOMAIN items' :
                    items'[i].Title = call.batch[k].Title => i = e
              /\ items'[e] = items[e]
              /\ \A n \in DOMAIN call.batch[k].Enclosures :
                    ( /\ NewUrl(enclosures, call.batch[k].Enclosures[n].URL)
                      /\ ReachedAt(call, k, n) ) =>
                        \E j \in DOMAIN enclosures' :
                            /\ enclosures'[j].Url
                                  = call.batch[k].Enclosures[n].URL
                            /\ enclosures'[j].ItemId = e
              /\ \A i \in DOMAIN items' : items'[i].FeedId \in DOMAIN feeds
      ]_vars

\* Feed 2 brought the title "b" of an Item of Feed 1 with two enclosures:
\* the Item of Feed 1 is the only Item and has both.
C39_Witness ==
    /\ call.state = "done" /\ call.feed = 2 /\ ~call.err
    /\ Len(call.batch) = 1 /\ call.batch[1].Title = "b"
    /\ Len(items) = 1 /\ items[1].FeedId = 1 /\ items[1].Title = "b"
    /\ Len(enclosures) = 2
    /\ \A j \in DOMAIN enclosures : enclosures[j].ItemId = 1

====
